---- MODULE Spec2Model ----
(***************************************************************************)
(* Model of package-scanner: the filename parsers of pkg/scanner (the      *)
(* Identity Extractor) and the scan controller of pkg/scanner (directory   *)
(* scan with a semaphore and a wait group, and the single-package scan),   *)
(* together with the persistence call of pkg/db that the controller makes. *)
(*                                                                         *)
(* Strings are sequences of bytes, as Go strings are: an ASCII byte is     *)
(* written as its character and the bytes of a longer rune as their hex    *)
(* value, so that splitting, trimming, slicing and the regular expressions *)
(* are computed as the code computes them.                                 *)
(***************************************************************************)
EXTENDS Integers, Sequences, FiniteSets, TLC

(***************************************************************************)
(* Bounds of the model.                                                    *)
(***************************************************************************)
\* filenames are made of at most MaxPieces pieces of Pieces (plus a suffix)
MaxPieces == 5
\* a directory scan processes at most MaxPackages identities
MaxPackages == 2
\* the concurrency limit ranges over 0..MaxConcurrency
MaxConcurrency == 2
\* a lookup returns at most MaxVulns vulnerabilities
MaxVulns == 2
\* a directory tree holds at most MaxEntries entries below its root
MaxEntries == 3
\* a CVSS vector holds at most MaxMetrics metrics
MaxMetrics == 4
\* a vulnerability has at most MaxAffected affected entries, of at most MaxAffected
\* ranges each
MaxAffected == 2

(***************************************************************************)
(* Characters and strings.                                                 *)
(***************************************************************************)
UpperLetters == <<"A","B","C","D","E","F","G","H","I","J","K","L","M",
                  "N","O","P","Q","R","S","T","U","V","W","X","Y","Z">>

LowerLetters == <<"a","b","c","d","e","f","g","h","i","j","k","l","m",
                  "n","o","p","q","r","s","t","u","v","w","x","y","z">>

Digits == {"0","1","2","3","4","5","6","7","8","9"}

IsUpper(c) == \E i \in 1..26 : UpperLetters[i] = c

IsLower(c) == \E i \in 1..26 : LowerLetters[i] = c

\* the character class [a-zA-Z0-9.-] of the prerelease part of the version patterns
PreChar(c) == IsUpper(c) \/ IsLower(c) \/ c \in Digits \/ c = "." \/ c = "-"

\* unicode.ToLower of the upper-case ASCII letters
LowerOf == [c \in {UpperLetters[i] : i \in 1..26} |-> LowerLetters[CHOOSE i \in 1..26 : UpperLetters[i] = c]]

ToLowerChar(c) == IF c \in DOMAIN LowerOf THEN LowerOf[c] ELSE c

\* unicode.ToUpper of the lower-case ASCII letters
UpperOf == [c \in {LowerLetters[i] : i \in 1..26} |-> UpperLetters[CHOOSE i \in 1..26 : LowerLetters[i] = c]]

ToUpperChar(c) == IF c \in DOMAIN UpperOf THEN UpperOf[c] ELSE c

\* s[from:] of Go, 1-based: the characters from position from on
From(s, from) == SubSeq(s, from, Len(s))

\* strings.HasPrefix
HasPrefix(s, p) == Len(p) <= Len(s) /\ SubSeq(s, 1, Len(p)) = p

\* strings.HasSuffix
HasSuffix(s, suf) == Len(suf) <= Len(s) /\ SubSeq(s, Len(s) - Len(suf) + 1, Len(s)) = suf

\* strings.TrimSuffix
TrimSuffix(s, suf) == IF HasSuffix(s, suf) THEN SubSeq(s, 1, Len(s) - Len(suf)) ELSE s

\* strings.TrimPrefix
TrimPrefix(s, p) == IF HasPrefix(s, p) THEN From(s, Len(p) + 1) ELSE s

\* the UTF-8 bytes of U+023A, capital A with stroke: the letter of the model whose
\* case mapping changes the length of the string
StrokeUpper == <<"C8", "BA">>

\* the UTF-8 bytes of U+2C65, unicode.ToLower(U+023A)
StrokeLower == <<"E2", "B1", "A5">>

\* whether s holds ASCII bytes only (the fast path of strings.ToLower and ToUpper)
IsASCII(s) == \A i \in 1..Len(s) : s[i] \notin {StrokeUpper[1], StrokeLower[1]}

RECURSIVE MapToLower(_)
\* strings.Map(unicode.ToLower, s), s being valid UTF-8
MapToLower(s) ==
    IF Len(s) = 0 THEN <<>>
    ELSE IF s[1] = StrokeUpper[1] THEN StrokeLower \o MapToLower(From(s, Len(StrokeUpper) + 1))
    ELSE IF s[1] = StrokeLower[1] THEN StrokeLower \o MapToLower(From(s, Len(StrokeLower) + 1))
    ELSE <<ToLowerChar(s[1])>> \o MapToLower(Tail(s))

RECURSIVE MapToUpper(_)
\* strings.Map(unicode.ToUpper, s), s being valid UTF-8
MapToUpper(s) ==
    IF Len(s) = 0 THEN <<>>
    ELSE IF s[1] = StrokeLower[1] THEN StrokeUpper \o MapToUpper(From(s, Len(StrokeLower) + 1))
    ELSE IF s[1] = StrokeUpper[1] THEN StrokeUpper \o MapToUpper(From(s, Len(StrokeUpper) + 1))
    ELSE <<ToUpperChar(s[1])>> \o MapToUpper(Tail(s))

\* strings.ToLower
ToLower(s) == IF IsASCII(s) THEN [i \in 1..Len(s) |-> ToLowerChar(s[i])] ELSE MapToLower(s)

\* strings.ToUpper
ToUpper(s) == IF IsASCII(s) THEN [i \in 1..Len(s) |-> ToUpperChar(s[i])] ELSE MapToUpper(s)

\* strings.Index for a one-character separator: 0 when absent
IndexChar(s, c) == IF \E i \in 1..Len(s) : s[i] = c
                   THEN CHOOSE i \in 1..Len(s) : s[i] = c /\ \A j \in 1..(i-1) : s[j] # c
                   ELSE 0

\* strings.LastIndex for a one-character separator: 0 when absent
LastIndexChar(s, c) == IF \E i \in 1..Len(s) : s[i] = c
                       THEN CHOOSE i \in 1..Len(s) : s[i] = c /\ \A j \in (i+1)..Len(s) : s[j] # c
                       ELSE 0

RECURSIVE Split(_, _)
\* strings.Split(s, sep) for a one-character separator: always at least one part
Split(s, sep) == LET i == IndexChar(s, sep)
                 IN IF i = 0 THEN <<s>>
                    ELSE <<SubSeq(s, 1, i - 1)>> \o Split(From(s, i + 1), sep)

\* strings.SplitN(s, sep, 2): split at the first separator only
SplitN2(s, sep) == LET i == IndexChar(s, sep)
                   IN IF i = 0 THEN <<s>>
                      ELSE <<SubSeq(s, 1, i - 1), From(s, i + 1)>>

RECURSIVE Join(_, _)
\* strings.Join(parts, sep)
Join(parts, sep) == IF Len(parts) = 0 THEN <<>>
                    ELSE IF Len(parts) = 1 THEN parts[1]
                    ELSE parts[1] \o <<sep>> \o Join(Tail(parts), sep)

RECURSIVE Flatten(_)
\* concatenation of a sequence of strings
Flatten(ss) == IF Len(ss) = 0 THEN <<>> ELSE ss[1] \o Flatten(Tail(ss))

(***************************************************************************)
(* The regular expressions of the parsers.                                 *)
(***************************************************************************)
\* \d+ as a whole string
IsDigits(s) == Len(s) >= 1 /\ \A i \in 1..Len(s) : s[i] \in Digits

\* \d+(\.\d+){lo-1,hi-1} as a whole string: lo..hi dot-separated digit groups
IsDotted(s, lo, hi) == LET parts == Split(s, ".")
                       IN /\ Len(parts) >= lo
                          /\ Len(parts) <= hi
                          /\ \A i \in 1..Len(parts) : IsDigits(parts[i])

\* (-[a-zA-Z0-9.-]+)? as a whole string
IsPreOpt(s) == \/ s = <<>>
               \/ /\ Len(s) >= 2
                  /\ s[1] = "-"
                  /\ \A i \in 2..Len(s) : PreChar(s[i])

\* a whole string matching <dotted with lo..hi groups>(-[a-zA-Z0-9.-]+)?
IsVersion(s, lo, hi) == \E k \in 0..Len(s) :
                            /\ IsDotted(SubSeq(s, 1, k), lo, hi)
                            /\ IsPreOpt(From(s, k + 1))

\* length of the longest run of digits of s that starts at position i
DigitRun(s, i) == IF i > Len(s) \/ s[i] \notin Digits THEN 0
                  ELSE CHOOSE n \in 1..(Len(s) - i + 1) :
                          /\ \A j \in i..(i + n - 1) : s[j] \in Digits
                          /\ (i + n > Len(s) \/ s[i + n] \notin Digits)

\* length of the longest run of [a-zA-Z0-9.-] of s that starts at position i
PreRun(s, i) == IF i > Len(s) \/ ~PreChar(s[i]) THEN 0
                ELSE CHOOSE n \in 1..(Len(s) - i + 1) :
                        /\ \A j \in i..(i + n - 1) : PreChar(s[j])
                        /\ (i + n > Len(s) \/ ~PreChar(s[i + n]))

(***************************************************************************)
(* The filename parsers (pkg/scanner).  A parser returns a record          *)
(* [err, name, version]; err = TRUE is the error return, whose strings are *)
(* empty.                                                                  *)
(***************************************************************************)
Dot(ext) == <<".">> \o ext

ExtNupkg == <<"n","u","p","k","g">>

ExtTgz == <<"t","g","z">>

ExtTarGz == <<"t","a","r",".","g","z">>

ExtWhl == <<"w","h","l">>

ExtEgg == <<"e","g","g">>

ExtJar == <<"j","a","r">>

ExtGem == <<"g","e","m">>

ExtDeb == <<"d","e","b">>

ExtRpm == <<"r","p","m">>

ExtZip == <<"z","i","p">>

\* what a parser hands back: an error, a (name, version) pair, or nothing at all
\* when it panics
ParseError == [err |-> TRUE, panic |-> FALSE, name |-> <<>>, version |-> <<>>]

Parsed(n, v) == [err |-> FALSE, panic |-> FALSE, name |-> n, version |-> v]

\* a slice expression out of range: the goroutine panics and nothing is returned
ParsePanic == [err |-> FALSE, panic |-> TRUE, name |-> <<>>, version |-> <<>>]

\* a pattern that takes two components only: ^\d+\.\d+(-[a-zA-Z0-9.-]+)?$
NuGetVersionRegexTwo(s) == IsVersion(s, 2, 2)

\* ^\d+(\.\d+)+(-[a-zA-Z0-9.-]+)?$
NuGetVersionRegex(s) == IsVersion(s, 2, Len(s) + 1)

RECURSIVE NuGetVersionStart(_, _, _)
\* the backward loop of parseNuGetPackage over i, with versionStartIndex = vsi
\* (1-based; 0 stands for the -1 of the code)
NuGetVersionStart(parts, i, vsi) ==
    IF i < 1 THEN vsi
    ELSE IF NuGetVersionRegex(Join(SubSeq(parts, i, Len(parts)), "."))
         THEN NuGetVersionStart(parts, i - 1, i)
         ELSE IF vsi # 0 THEN vsi
              ELSE NuGetVersionStart(parts, i - 1, vsi)

\* the lenient fallback: the rightmost segment that starts with a digit, or the last one
NuGetFallbackStart(parts) ==
    LET starts == {i \in 1..Len(parts) : Len(parts[i]) >= 1 /\ parts[i][1] \in Digits}
    IN IF starts # {} THEN CHOOSE i \in starts : \A j \in starts : j <= i
       ELSE Len(parts)

\* the name and version that parseNuGetPackage cuts at versionStartIndex = vsi
NuGetCut(parts, vsi) ==
    Parsed(Join(SubSeq(parts, 1, vsi - 1), "."), Join(SubSeq(parts, vsi, Len(parts)), "."))

\* parseNuGetPackage once the base is split into parts, found being the result of
\* the backward loop
NuGetFromParts(parts, found) ==
    IF Len(parts) < 2 THEN ParseError
    ELSE IF found = 0 THEN NuGetCut(parts, NuGetFallbackStart(parts))
    ELSE NuGetCut(parts, found)

NuGetSplit(parts) == NuGetFromParts(parts, NuGetVersionStart(parts, Len(parts), 0))

parseNuGetPackage(filename) ==
    NuGetSplit(Split(TrimSuffix(TrimSuffix(filename, Dot(ExtNupkg)), ToUpper(Dot(ExtNupkg))), "."))

\* a pattern whose third component is optional
NpmMatchStartsLoose(base) == {p \in 1..Len(base) : base[p] = "-" /\ IsVersion(From(base, p + 1), 2, 3)}

\* positions p of base at which -(\d+\.\d+\.\d+(-[a-zA-Z0-9.-]+)?)$ matches
NpmMatchStarts(base) == {p \in 1..Len(base) : base[p] = "-" /\ IsVersion(From(base, p + 1), 3, 3)}

\* the name left by strings.TrimSuffix(base, "-"+version)
NameBefore(base, version) == Parsed(TrimSuffix(base, <<"-">> \o version), version)

\* parseNpmPackage on the base, starts being the positions at which the pattern matches
NpmFromStarts(base, starts) ==
    IF starts = {} THEN ParseError
    ELSE NameBefore(base, From(base, (CHOOSE q \in starts : \A r \in starts : q <= r) + 1))

NpmFromBase(base) == NpmFromStarts(base, NpmMatchStarts(base))

parseNpmPackage(filename) ==
    NpmFromBase(TrimSuffix(TrimSuffix(
                    TrimSuffix(TrimSuffix(filename, Dot(ExtTgz)), ToUpper(Dot(ExtTgz))),
                    Dot(ExtTarGz)), ToUpper(Dot(ExtTarGz))))

\* parsePythonPackage once the base is split at its first hyphen
PythonFromParts(parts) ==
    IF Len(parts) < 2 THEN ParseError
    ELSE Parsed(parts[1], SplitN2(parts[2], "-")[1])

parsePythonPackage(filename) ==
    PythonFromParts(SplitN2(TrimSuffix(TrimSuffix(
                    TrimSuffix(TrimSuffix(filename, Dot(ExtWhl)), ToUpper(Dot(ExtWhl))),
                    Dot(ExtEgg)), ToUpper(Dot(ExtEgg))), "-"))

\* whether -\d+\.\d+ starts at position p of base, d1 being the digits after the hyphen
JavaStartsAt(base, p, d1) ==
    /\ base[p] = "-"
    /\ d1 >= 1
    /\ p + 1 + d1 <= Len(base)
    /\ base[p + 1 + d1] = "."
    /\ DigitRun(base, p + 2 + d1) >= 1

\* positions p of base at which -(\d+\.\d+(\.\d+)?(-[a-zA-Z0-9.-]+)?) can start
JavaMatchStarts(base) == {p \in 1..Len(base) : JavaStartsAt(base, p, DigitRun(base, p + 1))}

\* end of the optional (-[a-zA-Z0-9.-]+)? at position e, given the run r after the hyphen
JavaPreEnd(e, r) == IF r >= 1 THEN e + 1 + r ELSE e

\* first position after the optional prerelease that may start at position e
JavaAfterPre(base, e) ==
    JavaPreEnd(e, IF e <= Len(base) /\ base[e] = "-" THEN PreRun(base, e + 1) ELSE 0)

\* end of the optional (\.\d+)? at position e, given the digits d3 after the dot
JavaThirdEnd(e, d3) == IF d3 >= 1 THEN e + 1 + d3 ELSE e

\* first position after the optional third group that may start at position e
JavaAfterThird(base, e) ==
    JavaAfterPre(base, JavaThirdEnd(e, IF e <= Len(base) /\ base[e] = "."
                                          THEN DigitRun(base, e + 1) ELSE 0))

\* first position after the second digit group, which starts at position i
JavaAfterSecond(base, i) == JavaAfterThird(base, i + DigitRun(base, i))

\* first position after the match that starts at p: greedy groups, each optional
\* group taken whenever it can be
JavaMatchEnd(base, p) == JavaAfterSecond(base, p + 2 + DigitRun(base, p + 1))

\* the leftmost match: the text between its hyphen and its end
JavaVersionAt(base, p) == SubSeq(base, p + 1, JavaMatchEnd(base, p) - 1)

\* parseJavaPackage on the base, starts being the positions at which the pattern matches
JavaFromStarts(base, starts) ==
    IF starts = {} THEN ParseError
    ELSE NameBefore(base, JavaVersionAt(base, CHOOSE q \in starts : \A r \in starts : q <= r))

JavaFromBase(base) == JavaFromStarts(base, JavaMatchStarts(base))

parseJavaPackage(filename) ==
    JavaFromBase(TrimSuffix(TrimSuffix(filename, Dot(ExtJar)), ToUpper(Dot(ExtJar))))

\* (\d+\.\d+(\.\d+)?(-[a-zA-Z0-9.-]+)?)$ matches somewhere in s
GenericVersionRegex(s) == \E k \in 1..Len(s) : IsVersion(From(s, k), 2, 3)

GenericSeparators == <<"-", "_", ".">>

\* whether the split of the base on a separator yields a version-like last part
GenericPartsOk(parts) == Len(parts) >= 2 /\ GenericVersionRegex(parts[Len(parts)])

\* the return of parseGenericPackage for the parts of the separator that succeeded
GenericCut(parts, sep) == Parsed(Join(SubSeq(parts, 1, Len(parts) - 1), sep), parts[Len(parts)])

\* the loop over the separators, ok being the indexes of those that succeed
GenericFromOk(base, ok) ==
    IF ok = {} THEN ParseError
    ELSE GenericCut(Split(base, GenericSeparators[CHOOSE j \in ok : \A l \in ok : j <= l]),
                    GenericSeparators[CHOOSE j \in ok : \A l \in ok : j <= l])

GenericFromBase(base) ==
    GenericFromOk(base, {k \in 1..Len(GenericSeparators) :
                            GenericPartsOk(Split(base, GenericSeparators[k]))})

\* parseGenericPackage, lastDotLower being strings.LastIndex in the lower-cased
\* filename (1-based; 0 when there is no dot): filename[:lastDotLower] is taken of
\* the filename itself and panics when the index is beyond its length
GenericFromDot(filename, lastDotLower) ==
    IF lastDotLower = 0 THEN ParseError
    ELSE IF lastDotLower - 1 > Len(filename) THEN ParsePanic
    ELSE GenericFromBase(SubSeq(filename, 1, lastDotLower - 1))

parseGenericPackage(filename) == GenericFromDot(filename, LastIndexChar(ToLower(filename), "."))

\* the ecosystem of a lower-cased extension
EcosystemOf(e) ==
    CASE e = ExtNupkg -> "NuGet"
      [] e = ExtTgz \/ e = ExtTarGz -> "npm"
      [] e = ExtWhl \/ e = ExtEgg -> "PyPI"
      [] e = ExtJar -> "Maven"
      [] e = ExtGem -> "RubyGems"
      [] e = ExtDeb -> "Debian"
      [] e = ExtRpm -> "RPM"
      [] OTHER -> "Unknown"

determineEcosystem(extension) == EcosystemOf(ToLower(extension))

\* the PackageScanner for an extension without its leading dot
ScannerFor(ext, ecosystem) ==
    [FileExtension |-> ext,
     Ecosystem |-> IF ecosystem = "" THEN determineEcosystem(ext) ELSE ecosystem]

\* the PackageScanner built by NewPackageScanner(extension, ecosystem, logger)
NewPackageScanner(extension, ecosystem) == ScannerFor(TrimPrefix(extension, <<".">>), ecosystem)

\* the parser that the switch of ExtractPackageInfo selects for a lower-cased extension
ParseSwitch(e, filename) ==
    CASE e = ExtNupkg -> parseNuGetPackage(filename)
      [] e = ExtTgz \/ e = ExtTarGz -> parseNpmPackage(filename)
      [] e = ExtWhl \/ e = ExtEgg -> parsePythonPackage(filename)
      [] e = ExtJar -> parseJavaPackage(filename)
      [] OTHER -> parseGenericPackage(filename)

\* the PackageInfo and error that ExtractPackageInfo returns for the parser's return r
ExtractionOf(ecosystem, r) ==
    IF r.err \/ r.panic
    THEN [err |-> r.err, panic |-> r.panic, Name |-> <<>>, Version |-> <<>>, Ecosystem |-> ""]
    ELSE [err |-> FALSE, panic |-> FALSE, Name |-> r.name, Version |-> r.version,
          Ecosystem |-> ecosystem]

\* the parser given the lower-cased filename
ExtractPackageInfoLowered(ps, filename) ==
    ExtractionOf(ps.Ecosystem, ParseSwitch(ToLower(ps.FileExtension), ToLower(filename)))

\* ps.ExtractPackageInfo(filename): [err, panic, Name, Version, Ecosystem]
ExtractPackageInfo(ps, filename) ==
    ExtractionOf(ps.Ecosystem, ParseSwitch(ToLower(ps.FileExtension), filename))

(***************************************************************************)
(* ScanDirectory (pkg/scanner).  A directory is [stat, entries]: stat is   *)
(* what os.Stat finds at the root ("missing", "file" or "dir") and entries *)
(* is the walk in traversal order, each entry [name, isDir, walkErr].      *)
(***************************************************************************)
\* the suffix test of the walk callback: case-insensitive "." + FileExtension
MatchesExtension(ps, name) == HasSuffix(ToLower(name), <<".">> \o ToLower(ps.FileExtension))

\* the PackageInfo of an ExtractPackageInfo result
PackageInfoOf(r) == [Name |-> r.Name, Version |-> r.Version, Ecosystem |-> r.Ecosystem]

\* the walk callback of ScanDirectory on the entry d, r being what ExtractPackageInfo
\* returns for its name: the packages after the entry
WalkStep(ps, d, r, acc) ==
    IF d.isDir \/ ~MatchesExtension(ps, d.name) \/ r.err THEN acc
    ELSE Append(acc, PackageInfoOf(r))

\* ps.logCaseSensitivityWarning(packageName, ecosystem): whether the warning is
\* logged; nothing else is done
logCaseSensitivityWarning(packageName, ecosystem) ==
    /\ ecosystem \in {"npm", "PyPI", "Maven", "Cargo", "NuGet"}
    /\ ToLower(packageName) # packageName
    /\ ToUpper(packageName) # packageName

\* the packages of a walk for which the case-sensitivity warning is logged
CaseWarnings(packages) ==
    {i \in 1..Len(packages) :
        logCaseSensitivityWarning(packages[i].Name, packages[i].Ecosystem)}

\* what ScanDirectory returns: [err, panic, packages, warnings]
ScanError == [err |-> TRUE, panic |-> FALSE, packages |-> <<>>, warnings |-> {}]

ScanPanic == [err |-> FALSE, panic |-> TRUE, packages |-> <<>>, warnings |-> {}]

Scanned(packages) ==
    [err |-> FALSE, panic |-> FALSE, packages |-> packages, warnings |-> CaseWarnings(packages)]

RECURSIVE WalkDir(_, _, _)
RECURSIVE WalkEntry(_, _, _, _, _)
\* one call of the callback, on the entry d with r what ExtractPackageInfo does on
\* its name, then the walk over the entries that follow
WalkEntry(ps, d, r, rest, acc) ==
    IF d.walkErr THEN ScanError
    ELSE IF ~d.isDir /\ MatchesExtension(ps, d.name) /\ r.panic THEN ScanPanic
    ELSE WalkDir(ps, rest, WalkStep(ps, d, r, acc))

\* filepath.WalkDir with the callback of ScanDirectory over the remaining entries,
\* with the packages collected so far
WalkDir(ps, entries, acc) ==
    IF Len(entries) = 0 THEN Scanned(acc)
    ELSE WalkEntry(ps, entries[1], ExtractPackageInfo(ps, entries[1].name), Tail(entries), acc)

\* ps.ScanDirectory(dirPath): [err, panic, packages, warnings]
ScanDirectory(ps, dir) ==
    IF dir.stat # "dir" THEN ScanError
    ELSE WalkDir(ps, dir.entries, <<>>)

(***************************************************************************)
(* The vulnerability model and the helpers of pkg/db that build a row.     *)
(* A vulnerability is [ID, Severity, DBSpecific, Affected]: Severity is a  *)
(* sequence of [Type, Score], DBSpecific the database_specific severity    *)
(* label, Affected a sequence of [Name, Ranges], a range being the         *)
(* sequence of the Fixed values of its events ("" for an event that fixes  *)
(* nothing).                                                               *)
(***************************************************************************)
\* fmt.Sprintf("%.1f/10", score) for the whole-number scores 0..10
FormatScore == <<"0.0/10", "1.0/10", "2.0/10", "3.0/10", "4.0/10", "5.0/10",
                 "6.0/10", "7.0/10", "8.0/10", "9.0/10", "10.0/10">>

\* countOccurrences(s, substr) of pkg/db for a two-character substr
countOccurrences(s, substr) ==
    Cardinality({i \in 1..(Len(s) - 1) : SubSeq(s, i, i + 1) = substr})

\* extractCVSSScore of pkg/db; "PANIC" is the slice-bounds panic of cvssString[0:4]
dbExtractCVSSScore(cvssString) ==
    IF Len(cvssString) = 0 THEN "N/A"
    ELSE IF Len(cvssString) < 4 THEN "PANIC"
    ELSE LET proper == SubSeq(cvssString, 1, 4) = <<"C","V","S","S">>
             highCount == IF proper THEN countOccurrences(cvssString, <<":","H">>) ELSE 0
             mediumCount == IF proper THEN countOccurrences(cvssString, <<":","M">>) ELSE 0
             lowCount == IF proper THEN countOccurrences(cvssString, <<":","L">>) ELSE 0
             score == highCount * 3 + mediumCount * 2 + lowCount
         IN FormatScore[(IF score > 10 THEN 10 ELSE score) + 1]

\* the severity labels of the two switches
LabelCritical == <<"C","R","I","T","I","C","A","L">>

LabelHigh == <<"H","I","G","H">>

LabelMedium == <<"M","E","D","I","U","M">>

LabelLow == <<"L","O","W">>

\* the switch on the database_specific severity label, exact match (pkg/db)
dbSeverityBucket(label) ==
    CASE label = LabelCritical -> "9.0+/10"
      [] label = LabelHigh -> "7.0-8.9/10"
      [] label = LabelMedium -> "4.0-6.9/10"
      [] label = LabelLow -> "0.1-3.9/10"
      [] OTHER -> "Unknown"

\* getSeverityRating of pkg/db
dbGetSeverityRating(vuln) ==
    LET cvss == {i \in 1..Len(vuln.Severity) : vuln.Severity[i].Type = "CVSS_V3"}
        first == CHOOSE i \in cvss : \A j \in cvss : i <= j
    IN IF cvss # {} THEN dbExtractCVSSScore(vuln.Severity[first].Score)
       ELSE dbSeverityBucket(vuln.DBSpecific)

\* the Fixed values of the affected entries named packageName, in entry, range and
\* event order
RECURSIVE FixedEvents(_, _)
FixedEvents(affected, packageName) ==
    IF Len(affected) = 0 THEN <<>>
    ELSE (IF affected[1].Name = packageName THEN Flatten(affected[1].Ranges) ELSE <<>>)
         \o FixedEvents(Tail(affected), packageName)

\* findFixVersion of pkg/db
dbFindFixVersion(vuln, packageName) ==
    LET fixed == SelectSeq(FixedEvents(vuln.Affected, packageName), LAMBDA f : f # "")
    IN IF Len(fixed) > 0 THEN fixed[1] ELSE "No fix version found"

\* a loop that reads the first vulnerability for every row
VulnRowOfFirst(packageName, ecosystem, version, vulnerabilities, rawResponse, j) ==
    [package_name |-> packageName, ecosystem |-> ecosystem, version |-> version,
     vuln_id |-> vulnerabilities[1].ID,
     severity_rating |-> dbGetSeverityRating(vulnerabilities[1]),
     fix_version |-> dbFindFixVersion(vulnerabilities[1], packageName),
     raw_response |-> rawResponse, ord |-> j]

\* the row that SaveVulnerabilityResults inserts for the j-th vulnerability
VulnRow(packageName, ecosystem, version, vulnerabilities, rawResponse, j) ==
    [package_name |-> packageName, ecosystem |-> ecosystem, version |-> version,
     vuln_id |-> vulnerabilities[j].ID,
     severity_rating |-> dbGetSeverityRating(vulnerabilities[j]),
     fix_version |-> dbFindFixVersion(vulnerabilities[j], packageName),
     raw_response |-> rawResponse, ord |-> j]

\* the single row written for an empty vulnerability list
PlaceholderRow(packageName, ecosystem, version, rawResponse) ==
    [package_name |-> packageName, ecosystem |-> ecosystem, version |-> version,
     vuln_id |-> <<>>, severity_rating |-> "N/A", fix_version |-> "N/A",
     raw_response |-> rawResponse, ord |-> 1]

\* the database calls of one SaveVulnerabilityResults, in order: Begin, Prepare,
\* one Exec per row, Commit
SaveCalls(vulnerabilities) == 3 + (IF Len(vulnerabilities) = 0 THEN 1 ELSE Len(vulnerabilities))

\* a save without a transaction: the rows inserted before the failing call stay
SaveVulnerabilityResultsNoRollback(packageName, ecosystem, version, vulnerabilities, rawResponse, failAt) ==
    LET n == Len(vulnerabilities)
        done == IF failAt = 0 \/ failAt > 2 + n THEN n ELSE IF failAt <= 2 THEN 0 ELSE failAt - 3
    IN [ret |-> IF failAt = 0 THEN "nil" ELSE "err",
        rows |-> {VulnRow(packageName, ecosystem, version, vulnerabilities, rawResponse, j) :
                     j \in 1..done}]

\* p.SaveVulnerabilityResults(...) when the failAt-th database call fails (0: none
\* fails): [ret, rows] with ret "nil", "err" or "panic" and rows the rows committed
SaveVulnerabilityResults(packageName, ecosystem, version, vulnerabilities, rawResponse, failAt) ==
    LET n == Len(vulnerabilities)
        \* rows whose rating is computed before the failing call returns
        reached == IF failAt = 0 \/ failAt > 2 + n THEN n ELSE IF failAt <= 2 THEN 0 ELSE failAt - 2
        panics == {j \in 1..reached : dbGetSeverityRating(vulnerabilities[j]) = "PANIC"}
    IN IF failAt \in {1, 2} THEN [ret |-> "err", rows |-> {}]
       ELSE IF n = 0
            THEN IF failAt = 0
                 THEN [ret |-> "nil",
                       rows |-> {PlaceholderRow(packageName, ecosystem, version, rawResponse)}]
                 ELSE [ret |-> "err", rows |-> {}]
       ELSE IF panics # {} THEN [ret |-> "panic", rows |-> {}]
       ELSE IF failAt # 0 THEN [ret |-> "err", rows |-> {}]
       ELSE [ret |-> "nil",
             rows |-> {VulnRow(packageName, ecosystem, version, vulnerabilities, rawResponse, j) :
                          j \in 1..n}]

(***************************************************************************)
(* The helpers of pkg/osv that the reporter applies to a vulnerability.    *)
(***************************************************************************)
RECURSIVE Count(_, _)
\* strings.Count(s, substr) for a non-empty substr: non-overlapping occurrences
Count(s, substr) ==
    IF Len(s) < Len(substr) THEN 0
    ELSE IF HasPrefix(s, substr) THEN 1 + Count(From(s, Len(substr) + 1), substr)
    ELSE Count(Tail(s), substr)

\* the cap of the score at 10.0 and fmt.Sprintf("%.1f/10", score)
CappedScore(score) == FormatScore[(IF score > 10 THEN 10 ELSE score) + 1]

\* weights that count every token once
ExtractCVSSScoreFlat(cvssString) ==
    IF Len(cvssString) = 0 THEN "N/A"
    ELSE CappedScore(Count(cvssString, <<":","H">>) + Count(cvssString, <<":","M">>)
                     + Count(cvssString, <<":","L">>))

\* osv.ExtractCVSSScore
ExtractCVSSScore(cvssString) ==
    IF Len(cvssString) = 0 THEN "N/A"
    ELSE CappedScore(Count(cvssString, <<":","H">>) * 3 + Count(cvssString, <<":","M">>) * 2
                     + Count(cvssString, <<":","L">>))

\* the switch of osv.GetSeverityRating on the upper-cased label
SeverityBucket(upper) ==
    CASE upper = LabelCritical -> "9.0+/10"
      [] upper = LabelHigh -> "7.0-8.9/10"
      [] upper = LabelMedium -> "4.0-6.9/10"
      [] upper = LabelLow -> "0.1-3.9/10"
      [] OTHER -> "Unknown"

\* osv.GetSeverityRating once the CVSS_V3 entries of vuln.Severity are known
SeverityFrom(vuln, cvss) ==
    IF cvss # {} THEN ExtractCVSSScore(vuln.Severity[CHOOSE i \in cvss : \A j \in cvss : i <= j].Score)
    ELSE IF vuln.DBSpecific # <<>> THEN SeverityBucket(ToUpper(vuln.DBSpecific))
    ELSE "Unknown"

\* osv.GetSeverityRating
GetSeverityRating(vuln) ==
    SeverityFrom(vuln, {i \in 1..Len(vuln.Severity) : vuln.Severity[i].Type = "CVSS_V3"})

\* a search that takes the first event, fixed or not
FirstEventOf(fixed) == IF Len(fixed) > 0 THEN fixed[1] ELSE "No fix version found"

\* the return of osv.FindFixVersion, fixed being the Fixed values of the events
\* the loops go through, in order
FirstFixOf(fixed) ==
    IF \E i \in 1..Len(fixed) : fixed[i] # ""
    THEN fixed[CHOOSE i \in 1..Len(fixed) : fixed[i] # "" /\ \A j \in 1..(i - 1) : fixed[j] = ""]
    ELSE "No fix version found"

\* osv.FindFixVersion
FindFixVersion(vuln, packageName) == FirstFixOf(FixedEvents(vuln.Affected, packageName))

(***************************************************************************)
(* QueryPackage (pkg/osv).  The service's answer is [transport, status,    *)
(* body]; a body is [kind, vulns, id]: kind "vulns" decodes to the list    *)
(* vulns, kind "garbage" decodes to nothing.                               *)
(***************************************************************************)
NoBody == [kind |-> "none", vulns |-> <<>>, id |-> <<>>]

\* c.osvClient.QueryPackage(name, version, ecosystem) on the answer resp:
\* [Vulnerabilities, body, err]
QueryPackage(resp) ==
    IF resp.transport # "ok"
    THEN [Vulnerabilities |-> <<>>, body |-> NoBody, err |-> TRUE]
    ELSE IF resp.status # 200
         THEN [Vulnerabilities |-> <<>>, body |-> resp.body, err |-> TRUE]
         ELSE [Vulnerabilities |-> IF resp.body.kind = "vulns" THEN resp.body.vulns ELSE <<>>,
               body |-> resp.body, err |-> FALSE]

\* sample scores: a CVSS vector with two :H tokens, and a score of three characters
CvssVector == <<"C","V","S","S",":","3","/","C",":","H","/","I",":","H">>

ShortScore == <<"7",".","5">>

\* the j-th vulnerability of a sample answer about the package called name
SampleVuln(name, j) ==
    [ID |-> <<"GHSA", j>>,
     Severity |-> IF j % 2 = 1 THEN <<[Type |-> "CVSS_V3", Score |-> CvssVector]>> ELSE <<>>,
     DBSpecific |-> LabelHigh,
     Affected |-> <<[Name |-> name, Ranges |-> << <<"", "9.9.9">> >>]>>]

\* a vulnerability whose CVSS_V3 score is shorter than four characters
ShortScoreVuln(name) ==
    [ID |-> <<"GHSA", 0>>,
     Severity |-> <<[Type |-> "CVSS_V3", Score |-> ShortScore]>>,
     DBSpecific |-> <<>>,
     Affected |-> <<>>]

\* the vulnerability lists a sample answer carries
VulnLists(name) ==
    {[j \in 1..n |-> SampleVuln(name, j)] : n \in 0..MaxVulns} \cup {<<ShortScoreVuln(name)>>}

\* the answers the service can give to a query for the package called name
Responses(name) ==
    {[transport |-> "fail", status |-> 0, body |-> NoBody],
     [transport |-> "ok", status |-> 500, body |-> [kind |-> "garbage", vulns |-> <<>>, id |-> name]],
     [transport |-> "ok", status |-> 200, body |-> [kind |-> "garbage", vulns |-> <<>>, id |-> name]]}
    \cup {[transport |-> "ok", status |-> 200, body |-> [kind |-> "vulns", vulns |-> vl, id |-> name]] :
             vl \in VulnLists(name)}

(***************************************************************************)
(* State.                                                                  *)
(***************************************************************************)
VARIABLES
    config,      \* cli.Config: the fields the controller reads
    dbInstance,  \* Controller.dbInstance: "db" or "nil"
    dir,         \* the directory at config.DirectoryPath
    mainPc,      \* position of the main goroutine in Controller.Run
    packages,    \* the packages returned by ScanDirectory
    next,        \* index of the package the dispatch loop is at
    sem,         \* number of values in the channel sem
    wg,          \* counter of the sync.WaitGroup
    wpc,         \* position of each worker goroutine
    wpkg,        \* the pkg argument of each worker goroutine
    wres,        \* what QueryPackage returned to each worker (or to the single scan)
    calls,       \* per outcome, the collaborator calls made for it
    dbRows,      \* the committed rows of vulnerability_scans
    summary,     \* number of DisplayScanSummary calls, with their arguments
    apiFile,     \* api_response.json: whether the single scan wrote it, and what
    exit,        \* "running", or how the process ended
    xpc,         \* extraction: "new", "ready" (scanner built), "extracted" or "walked"
    ps,          \* the PackageScanner built by NewPackageScanner
    filename,    \* the filename given to ExtractPackageInfo
    extracted,   \* what ExtractPackageInfo returned
    scanned,     \* walk: what ScanDirectory returned
    hpc,         \* reporting of one vulnerability: "off", "got" or "shown"
    hvuln,       \* the vulnerability handed to the reporter
    hout,        \* the severity and fixVersion the reporter logs for it
    model        \* the tui.Model handed from one Update to the next

scanVars == <<config, dbInstance, dir, mainPc, packages, next, sem, wg, wpc, wpkg, wres,
              calls, dbRows, summary, apiFile, exit>>

deriveVars == <<hpc, hvuln, hout>>

tuiVars == <<model>>

extractVars == <<xpc, ps, filename, extracted, scanned, deriveVars, tuiVars>>

vars == <<config, dbInstance, dir, mainPc, packages, next, sem, wg, wpc, wpkg, wres,
          calls, dbRows, summary, apiFile, exit, xpc, ps, filename, extracted, scanned,
          hpc, hvuln, hout, model>>

None == "none"

\* values of variables that hold nothing yet
NoPackage == [Name |-> <<>>, Version |-> <<>>, Ecosystem |-> ""]

NoResult == [Vulnerabilities |-> <<>>, body |-> NoBody, err |-> FALSE]

NoScanner == [FileExtension |-> <<>>, Ecosystem |-> ""]

NoExtraction == [err |-> FALSE, panic |-> FALSE, Name |-> <<>>, Version |-> <<>>,
                 Ecosystem |-> ""]

NoScan == [err |-> FALSE, panic |-> FALSE, packages |-> <<>>, warnings |-> {}]

NoFile == [written |-> FALSE, body |-> NoBody]

NoVuln == [ID |-> <<"GHSA", 0>>, Severity |-> <<>>, DBSpecific |-> <<>>, Affected |-> <<>>]

NoDerived == [severity |-> "", fixVersion |-> ""]

Workers == 1..MaxPackages

\* the outcome slot of the single-package scan
Single == 1

NoCalls == [start |-> 0, query |-> <<>>, results |-> <<>>, error |-> 0, save |-> <<>>,
            saveRet |-> None, info |-> 0]

\* the j-th file of the scanned directory: <letter>.1.2.3.nupkg
DirFile(j) == <<UpperLetters[j]>> \o <<".","1",".","2",".","3">> \o Dot(ExtNupkg)

\* the directories of the model: a missing root, and n package files under a root
Directories ==
    {[stat |-> "missing", entries |-> <<>>]} \cup
    {[stat |-> "dir",
      entries |-> <<[name |-> <<"r">>, isDir |-> TRUE, walkErr |-> FALSE]>> \o
                  [j \in 1..n |-> [name |-> DirFile(j), isDir |-> FALSE, walkErr |-> FALSE]]] :
        n \in 0..MaxPackages}

\* the configurations: directory mode needs both DirectoryPath and FileExtension
Configs ==
    [DirectoryPath : {<<>>, <<"d">>},
     FileExtension : {<<>>, ExtNupkg},
     Concurrency : (-1)..MaxConcurrency,
     UseDB : BOOLEAN,
     PackageName : {<<"P">>},
     PackageVersion : {<<"2",".","3",".","0">>},
     PackageEcosystem : {"NuGet"}]

\* the state NewController leaves: the database is connected iff UseDB
ScanInit ==
    /\ config \in Configs
    /\ dbInstance = IF config.UseDB THEN "db" ELSE "nil"
    /\ dir \in Directories
    /\ mainPc = "run"
    /\ packages = <<>>
    /\ next = 1
    /\ sem = 0
    /\ wg = 0
    /\ wpc = [i \in Workers |-> "unborn"]
    /\ wpkg = [i \in Workers |-> NoPackage]
    /\ wres = [i \in Workers |-> NoResult]
    /\ calls = [i \in Workers |-> NoCalls]
    /\ dbRows = {}
    /\ summary = <<>>
    /\ apiFile = NoFile
    /\ exit = "running"

ExtractIdle ==
    /\ xpc = "new"
    /\ ps = NoScanner
    /\ filename = <<>>
    /\ extracted = NoExtraction
    /\ scanned = NoScan

\* no vulnerability is being reported on its own
DeriveIdle ==
    /\ hpc = "off"
    /\ hvuln = NoVuln
    /\ hout = NoDerived

\* no terminal form is shown
TuiIdle ==
    model = [Mode |-> "none", showAdvanced |-> FALSE, activeInput |-> 0,
             inputs |-> <<>>, dbInputs |-> <<>>, logInputs |-> <<>>,
             ready |-> FALSE, quitting |-> FALSE, inputsSubmitted |-> FALSE]

Init == ScanInit /\ ExtractIdle /\ DeriveIdle /\ TuiIdle

(***************************************************************************)
(* The controller (pkg/scanner/controller.go).                             *)
(***************************************************************************)
Running == exit = "running"

\* a directory scan as soon as one of the two is given
DirectoryModeEither(cfg) == cfg.DirectoryPath # <<>> \/ cfg.FileExtension # <<>>

\* the condition of Controller.Run for the directory scan
DirectoryMode(cfg) == cfg.DirectoryPath # <<>> /\ cfg.FileExtension # <<>>

\* a drop of the condition on the vulnerability list
ShouldSaveWhenEnabled(cfg, db, results) == cfg.UseDB /\ db # "nil"

\* the Result Policy test of both scans
ShouldSave(cfg, db, results) ==
    cfg.UseDB /\ db # "nil" /\ Len(results.Vulnerabilities) > 0

\* a send that never blocks
SemHasRoomAlways(n, capacity) == TRUE

\* a channel that holds one value more than its capacity
SemHasRoomOffByOne(n, capacity) == n <= capacity

\* a channel that takes a first value whatever its capacity
SemHasRoomForOne(n, capacity) == n < capacity \/ n = 0

\* whether the send sem <- true can proceed: the channel made with the capacity
\* holds n values
SemHasRoom(n, capacity) == n < capacity

\* a wait that returns at once
WaitReturnsAlways(counter) == TRUE

\* whether wg.Wait() returns
WaitReturns(counter) == counter = 0

\* a worker that goes on to DisplayResults whatever the lookup returned
AfterQueryIgnoringError(r) == "display"

\* where the worker goes after QueryPackage returned r
AfterQuery(r) == IF r.err THEN "error" ELSE "display"

\* a worker that ends the process on a save error, as the single scan does
ExitAfterWorkerSaveFatal(ret, e) == IF ret = "err" THEN "exit1" ELSE e

\* the process state after a worker's SaveVulnerabilityResults returned ret: the
\* worker reports the return and goes on
ExitAfterWorkerSave(ret, e) == e

\* the process state after the single scan's SaveVulnerabilityResults returned ret
ExitAfterSingleSave(ret, e) ==
    CASE ret = "err" -> "exit1"
      [] ret = "panic" -> "panic"
      [] OTHER -> e

\* the arguments of a collaborator call about a package
QueryArgs(name, version, ecosystem) == [name |-> name, version |-> version, ecosystem |-> ecosystem]

SaveArgs(name, ecosystem, version, vulnerabilities, body) ==
    [name |-> name, ecosystem |-> ecosystem, version |-> version,
     vulnerabilities |-> vulnerabilities, body |-> body]

\* Controller.Run: choose the mode
Run ==
    /\ Running /\ mainPc = "run"
    /\ mainPc' = IF DirectoryMode(config) THEN "scan" ELSE "s_query"
    /\ UNCHANGED <<config, dbInstance, dir, packages, next, sem, wg, wpc, wpkg, wres,
                   calls, dbRows, summary, apiFile, exit, extractVars>>

\* runDirectoryScan up to the dispatch loop: build the scanner, scan the directory
\* (exit 1 on error), make the semaphore (make panics on a negative capacity)
StartDirectoryScan ==
    /\ Running /\ mainPc = "scan"
    /\ \E r \in {ScanDirectory(NewPackageScanner(config.FileExtension, config.PackageEcosystem), dir)} :
          IF r.panic
          THEN exit' = "panic" /\ UNCHANGED <<packages, mainPc>>
          ELSE IF r.err
          THEN exit' = "exit1" /\ UNCHANGED <<packages, mainPc>>
          ELSE /\ packages' = r.packages
               /\ IF config.Concurrency < 0
                  THEN exit' = "panic" /\ UNCHANGED mainPc
                  ELSE /\ mainPc' = IF Len(r.packages) = 0 THEN "wait" ELSE "add"
                       /\ UNCHANGED exit
    /\ UNCHANGED <<config, dbInstance, dir, next, sem, wg, wpc, wpkg, wres,
                   calls, dbRows, summary, apiFile, extractVars>>

\* wg.Add(1)
Add ==
    /\ Running /\ mainPc = "add"
    /\ wg' = wg + 1
    /\ mainPc' = "acquire"
    /\ UNCHANGED <<config, dbInstance, dir, packages, next, sem, wpc, wpkg, wres,
                   calls, dbRows, summary, apiFile, exit, extractVars>>

\* a worker that is handed the first package whatever the loop is at
AdmitFirstPackage ==
    /\ Running /\ mainPc = "acquire"
    /\ SemHasRoom(sem, config.Concurrency)
    /\ sem' = sem + 1
    /\ wpc' = [wpc EXCEPT ![next] = "start"]
    /\ wpkg' = [wpkg EXCEPT ![next] = packages[1]]
    /\ next' = next + 1
    /\ mainPc' = IF next + 1 > Len(packages) THEN "wait" ELSE "add"
    /\ UNCHANGED <<config, dbInstance, dir, packages, wg, wres,
                   calls, dbRows, summary, apiFile, exit, extractVars>>

\* sem <- true, blocking while the channel is full, then go func(pkg){...}(pkg)
Admit ==
    /\ Running /\ mainPc = "acquire"
    /\ SemHasRoom(sem, config.Concurrency)
    /\ sem' = sem + 1
    /\ wpc' = [wpc EXCEPT ![next] = "start"]
    /\ wpkg' = [wpkg EXCEPT ![next] = packages[next]]
    /\ next' = next + 1
    /\ mainPc' = IF next + 1 > Len(packages) THEN "wait" ELSE "add"
    /\ UNCHANGED <<config, dbInstance, dir, packages, wg, wres,
                   calls, dbRows, summary, apiFile, exit, extractVars>>

\* the worker's DisplayPackageScanStart
WorkerStart(i) ==
    /\ Running /\ wpc[i] = "start"
    /\ calls' = [calls EXCEPT ![i].start = @ + 1]
    /\ wpc' = [wpc EXCEPT ![i] = "query"]
    /\ UNCHANGED <<config, dbInstance, dir, mainPc, packages, next, sem, wg, wpkg, wres,
                   dbRows, summary, apiFile, exit, extractVars>>

\* the worker's QueryPackage, answered by the service with resp
WorkerQuery(i) ==
    /\ Running /\ wpc[i] = "query"
    /\ \E resp \in Responses(wpkg[i].Name) : \E r \in {QueryPackage(resp)} :
          /\ wres' = [wres EXCEPT ![i] = r]
          /\ wpc' = [wpc EXCEPT ![i] = AfterQuery(r)]
    /\ calls' = [calls EXCEPT ![i].query =
                    Append(@, QueryArgs(wpkg[i].Name, wpkg[i].Version, wpkg[i].Ecosystem))]
    /\ UNCHANGED <<config, dbInstance, dir, mainPc, packages, next, sem, wg, wpkg,
                   dbRows, summary, apiFile, exit, extractVars>>

\* the worker's DisplayError for a failed lookup, and its return
WorkerLookupError(i) ==
    /\ Running /\ wpc[i] = "error"
    /\ calls' = [calls EXCEPT ![i].error = @ + 1]
    /\ wpc' = [wpc EXCEPT ![i] = "release"]
    /\ UNCHANGED <<config, dbInstance, dir, mainPc, packages, next, sem, wg, wpkg, wres,
                   dbRows, summary, apiFile, exit, extractVars>>

\* the worker's DisplayResults
WorkerDisplay(i) ==
    /\ Running /\ wpc[i] = "display"
    /\ calls' = [calls EXCEPT ![i].results =
                    Append(@, [vulnerabilities |-> wres[i].Vulnerabilities, name |-> wpkg[i].Name])]
    /\ wpc' = [wpc EXCEPT ![i] = "policy"]
    /\ UNCHANGED <<config, dbInstance, dir, mainPc, packages, next, sem, wg, wpkg, wres,
                   dbRows, summary, apiFile, exit, extractVars>>

\* the worker's Result Policy: SaveVulnerabilityResults and the line that reports
\* its return, or the line that says nothing was saved
WorkerPersist(i) ==
    /\ Running /\ wpc[i] = "policy"
    /\ IF ShouldSave(config, dbInstance, wres[i])
       THEN \E failAt \in 0..SaveCalls(wres[i].Vulnerabilities) :
               \E s \in {SaveVulnerabilityResults(wpkg[i].Name, wpkg[i].Ecosystem, wpkg[i].Version,
                                                  wres[i].Vulnerabilities, wres[i].body, failAt)} :
                  /\ dbRows' = dbRows \cup s.rows
                  /\ calls' = [calls EXCEPT
                        ![i].save = Append(@, SaveArgs(wpkg[i].Name, wpkg[i].Ecosystem,
                                                        wpkg[i].Version, wres[i].Vulnerabilities,
                                                        wres[i].body)),
                        ![i].saveRet = s.ret,
                        ![i].error = IF s.ret = "err" THEN @ + 1 ELSE @,
                        ![i].info = IF s.ret = "nil" THEN @ + 1 ELSE @]
                  /\ exit' = ExitAfterWorkerSave(s.ret, exit)
       ELSE /\ calls' = [calls EXCEPT ![i].info =
                            IF config.UseDB /\ Len(wres[i].Vulnerabilities) = 0 THEN @ + 1 ELSE @]
            /\ UNCHANGED <<dbRows, exit>>
    /\ wpc' = [wpc EXCEPT ![i] = "release"]
    /\ UNCHANGED <<config, dbInstance, dir, mainPc, packages, next, sem, wg, wpkg, wres,
                   summary, apiFile, extractVars>>

\* a worker that keeps its slot of the semaphore
WorkerReleaseKeepsSlot(i) ==
    /\ Running /\ wpc[i] = "release"
    /\ sem' = sem
    /\ wpc' = [wpc EXCEPT ![i] = "wgdone"]
    /\ UNCHANGED <<config, dbInstance, dir, mainPc, packages, next, wg, wpkg, wres,
                   calls, dbRows, summary, apiFile, exit, extractVars>>

\* the deferred <-sem
WorkerRelease(i) ==
    /\ Running /\ wpc[i] = "release"
    /\ sem' = sem - 1
    /\ wpc' = [wpc EXCEPT ![i] = "wgdone"]
    /\ UNCHANGED <<config, dbInstance, dir, mainPc, packages, next, wg, wpkg, wres,
                   calls, dbRows, summary, apiFile, exit, extractVars>>

\* the deferred wg.Done(); a goroutine that ran its deferred calls because of a
\* panic goes on to crash the process
WorkerDone(i) ==
    /\ Running /\ wpc[i] = "wgdone"
    /\ wg' = wg - 1
    /\ wpc' = [wpc EXCEPT ![i] = IF calls[i].saveRet = "panic" THEN "crash" ELSE "finished"]
    /\ UNCHANGED <<config, dbInstance, dir, mainPc, packages, next, sem, wpkg, wres,
                   calls, dbRows, summary, apiFile, exit, extractVars>>

\* the unrecovered panic of a worker ends the process
WorkerCrash(i) ==
    /\ Running /\ wpc[i] = "crash"
    /\ exit' = "panic"
    /\ UNCHANGED <<config, dbInstance, dir, mainPc, packages, next, sem, wg, wpc, wpkg, wres,
                   calls, dbRows, summary, apiFile, extractVars>>

\* wg.Wait() returns and DisplayScanSummary(len(packages)) is called
Wait ==
    /\ Running /\ mainPc = "wait"
    /\ WaitReturns(wg)
    /\ summary' = Append(summary, Len(packages))
    /\ mainPc' = "done"
    /\ UNCHANGED <<config, dbInstance, dir, packages, next, sem, wg, wpc, wpkg, wres,
                   calls, dbRows, apiFile, exit, extractVars>>

\* a single scan that goes on to DisplayResults whatever the lookup returned
SingleQueryGoesOn ==
    /\ Running /\ mainPc = "s_query"
    /\ \E resp \in Responses(config.PackageName) : \E r \in {QueryPackage(resp)} :
          /\ wres' = [wres EXCEPT ![Single] = r]
          /\ mainPc' = "s_display"
          /\ calls' = [calls EXCEPT
                ![Single].query = Append(@, QueryArgs(config.PackageName,
                                            config.PackageVersion, config.PackageEcosystem))]
          /\ UNCHANGED exit
    /\ UNCHANGED <<config, dbInstance, dir, packages, next, sem, wg, wpc, wpkg,
                   dbRows, summary, apiFile, extractVars>>

\* runSinglePackageScan: QueryPackage for the configured package; exit 1 on error
SingleQuery ==
    /\ Running /\ mainPc = "s_query"
    /\ \E resp \in Responses(config.PackageName) : \E r \in {QueryPackage(resp)} :
          /\ wres' = [wres EXCEPT ![Single] = r]
          /\ IF r.err
             THEN /\ exit' = "exit1"
                  /\ calls' = [calls EXCEPT
                        ![Single].query = Append(@, QueryArgs(config.PackageName,
                                                    config.PackageVersion, config.PackageEcosystem)),
                        ![Single].error = @ + 1]
                  /\ UNCHANGED mainPc
             ELSE /\ mainPc' = "s_display"
                  /\ calls' = [calls EXCEPT
                        ![Single].query = Append(@, QueryArgs(config.PackageName,
                                                    config.PackageVersion, config.PackageEcosystem))]
                  /\ UNCHANGED exit
    /\ UNCHANGED <<config, dbInstance, dir, packages, next, sem, wg, wpc, wpkg,
                   dbRows, summary, apiFile, extractVars>>

\* runSinglePackageScan: DisplayResults
SingleDisplay ==
    /\ Running /\ mainPc = "s_display"
    /\ calls' = [calls EXCEPT ![Single].results =
                    Append(@, [vulnerabilities |-> wres[Single].Vulnerabilities,
                               name |-> config.PackageName])]
    /\ mainPc' = "s_save"
    /\ UNCHANGED <<config, dbInstance, dir, packages, next, sem, wg, wpc, wpkg, wres,
                   dbRows, summary, apiFile, exit, extractVars>>

\* runSinglePackageScan: the Result Policy; a save error is logged and exits 1
SinglePersist ==
    /\ Running /\ mainPc = "s_save"
    /\ IF ShouldSave(config, dbInstance, wres[Single])
       THEN \E failAt \in 0..SaveCalls(wres[Single].Vulnerabilities) :
               \E s \in {SaveVulnerabilityResults(config.PackageName, config.PackageEcosystem,
                                                  config.PackageVersion,
                                                  wres[Single].Vulnerabilities,
                                                  wres[Single].body, failAt)} :
                  /\ dbRows' = dbRows \cup s.rows
                  /\ calls' = [calls EXCEPT
                        ![Single].save = Append(@, SaveArgs(config.PackageName,
                                                    config.PackageEcosystem, config.PackageVersion,
                                                    wres[Single].Vulnerabilities,
                                                    wres[Single].body)),
                        ![Single].saveRet = s.ret,
                        ![Single].error = IF s.ret = "err" THEN @ + 1 ELSE @,
                        ![Single].info = IF s.ret = "nil" THEN @ + 1 ELSE @]
                  /\ exit' = ExitAfterSingleSave(s.ret, exit)
                  /\ mainPc' = IF s.ret = "nil" THEN "s_write" ELSE mainPc
       ELSE /\ calls' = [calls EXCEPT ![Single].info =
                            IF config.UseDB /\ Len(wres[Single].Vulnerabilities) = 0
                            THEN @ + 1 ELSE @]
            /\ mainPc' = "s_write"
            /\ UNCHANGED <<dbRows, exit>>
    /\ UNCHANGED <<config, dbInstance, dir, packages, next, sem, wg, wpc, wpkg, wres,
                   summary, apiFile, extractVars>>

\* runSinglePackageScan: os.WriteFile("api_response.json", body), which may fail
SingleWrite ==
    /\ Running /\ mainPc = "s_write"
    /\ \E ok \in BOOLEAN :
          apiFile' = IF ok THEN [written |-> TRUE, body |-> wres[Single].body] ELSE apiFile
    /\ mainPc' = "done"
    /\ UNCHANGED <<config, dbInstance, dir, packages, next, sem, wg, wpc, wpkg, wres,
                   calls, dbRows, summary, exit, extractVars>>

\* Run returns to main, which closes the controller and ends the process
Return ==
    /\ Running /\ mainPc = "done"
    /\ exit' = "exit0"
    /\ UNCHANGED <<config, dbInstance, dir, mainPc, packages, next, sem, wg, wpc, wpkg, wres,
                   calls, dbRows, summary, apiFile, extractVars>>

Next ==
    \/ Run
    \/ StartDirectoryScan
    \/ Add
    \/ Admit
    \/ \E i \in Workers : WorkerStart(i)
    \/ \E i \in Workers : WorkerQuery(i)
    \/ \E i \in Workers : WorkerLookupError(i)
    \/ \E i \in Workers : WorkerDisplay(i)
    \/ \E i \in Workers : WorkerPersist(i)
    \/ \E i \in Workers : WorkerRelease(i)
    \/ \E i \in Workers : WorkerDone(i)
    \/ \E i \in Workers : WorkerCrash(i)
    \/ Wait
    \/ SingleQuery
    \/ SingleDisplay
    \/ SinglePersist
    \/ SingleWrite
    \/ Return

Spec == Init /\ [][Next]_vars

\* the steps of the main goroutine in the dispatch loop of runDirectoryScan and at
\* its wg.Wait()
DispatchStep ==
    \/ Add
    \/ Admit
    \/ Wait

\* the steps of the goroutine of the i-th package
WorkerStep(i) ==
    \/ WorkerStart(i)
    \/ WorkerQuery(i)
    \/ WorkerLookupError(i)
    \/ WorkerDisplay(i)
    \/ WorkerPersist(i)
    \/ WorkerRelease(i)
    \/ WorkerDone(i)
    \/ WorkerCrash(i)

\* once the batch is there, the Go scheduler runs every goroutine that can run, and
\* every call to the lookup service and to the database returns
Fairness == WF_vars(DispatchStep) /\ \A i \in Workers : WF_vars(WorkerStep(i))

SpecLive == Spec /\ Fairness

(***************************************************************************)
(* Extraction on its own: a scanner is built and ExtractPackageInfo is     *)
(* called once on a filename.                                              *)
(***************************************************************************)
\* the pieces filenames are made of: a letter, a digit, the separators, and a
\* three-component version
Pieces == {<<"B">>, <<"1">>, <<".">>, <<"-">>, <<"1",".","2",".","3">>}

\* the underscore only matters to the generic parser, whose separator it is, and so
\* does a letter whose lower case is longer, the generic parser being the one that
\* carries an index of the lower-cased filename over to the filename
PiecesFor(scanner) ==
    IF EcosystemOf(ToLower(scanner.FileExtension)) = "Unknown"
    THEN Pieces \cup {<<"_">>, StrokeUpper}
    ELSE Pieces

\* the extension with its first letter in upper case
Capitalize(ext) == <<ToUpperChar(ext[1])>> \o Tail(ext)

\* the endings of the filenames given to a scanner: none, and its extension in
\* lower, upper and mixed case
Suffixes(scanner) ==
    {<<>>, Dot(ToLower(scanner.FileExtension)), Dot(ToUpper(scanner.FileExtension)),
     Dot(Capitalize(ToLower(scanner.FileExtension)))}

\* the number of pieces of the filenames given to a scanner: one fewer where the
\* pieces are more
PieceCount(scanner) ==
    IF EcosystemOf(ToLower(scanner.FileExtension)) = "Unknown" THEN MaxPieces - 1 ELSE MaxPieces

\* the filenames given to a scanner
Filenames(scanner) ==
    {Flatten(f) \o suf : f \in UNION {[1..n -> PiecesFor(scanner)] : n \in 0..PieceCount(scanner)},
                         suf \in Suffixes(scanner)}

\* the (extension, ecosystem) arguments NewPackageScanner is called with
ScannerArgs ==
    {<<e, "">> : e \in {ExtNupkg, ExtTgz, ExtTarGz, ExtWhl, ExtEgg, ExtJar, ExtZip,
                        ToUpper(ExtNupkg), Dot(ExtJar)}}
    \cup {<<ExtNupkg, "NuGet">>, <<ExtTgz, "NuGet">>}

\* the controller at rest while extraction is exercised on its own
ScanIdle ==
    /\ config = [DirectoryPath |-> <<>>, FileExtension |-> <<>>, Concurrency |-> 1,
                 UseDB |-> FALSE, PackageName |-> <<>>, PackageVersion |-> <<>>,
                 PackageEcosystem |-> ""]
    /\ dbInstance = "nil"
    /\ dir = [stat |-> "missing", entries |-> <<>>]
    /\ mainPc = "off"
    /\ packages = <<>>
    /\ next = 1
    /\ sem = 0
    /\ wg = 0
    /\ wpc = [i \in Workers |-> "unborn"]
    /\ wpkg = [i \in Workers |-> NoPackage]
    /\ wres = [i \in Workers |-> NoResult]
    /\ calls = [i \in Workers |-> NoCalls]
    /\ dbRows = {}
    /\ summary = <<>>
    /\ apiFile = NoFile
    /\ exit = "running"

InitExtract == ScanIdle /\ ExtractIdle /\ DeriveIdle /\ TuiIdle

\* NewPackageScanner(extension, ecosystem, logger)
BuildScanner ==
    /\ xpc = "new"
    /\ \E a \in ScannerArgs : ps' = NewPackageScanner(a[1], a[2])
    /\ xpc' = "ready"
    /\ UNCHANGED <<filename, extracted, scanned, scanVars, deriveVars, tuiVars>>

\* ps.ExtractPackageInfo(filename)
Extract ==
    /\ xpc = "ready"
    /\ \E f \in Filenames(ps) :
          /\ filename' = f
          /\ extracted' = ExtractPackageInfo(ps, f)
    /\ xpc' = "extracted"
    /\ UNCHANGED <<ps, scanned, scanVars, deriveVars, tuiVars>>

NextExtract ==
    \/ BuildScanner
    \/ Extract

SpecExtract == InitExtract /\ [][NextExtract]_vars

(***************************************************************************)
(* ScanDirectory on its own: a scanner is built and walks one tree.        *)
(***************************************************************************)
\* the names before the extension of the files of a tree: one that every parser
\* splits, one that no parser splits and, where the generic parser is used, one
\* whose lower case is longer than the name by more than the extension
WalkStems(scanner) ==
    {<<"B", "b", "-", "1", ".", "2", ".", "3">>, <<"B">>}
    \cup IF EcosystemOf(ToLower(scanner.FileExtension)) = "Unknown"
         THEN {Flatten([i \in 1..(Len(scanner.FileExtension) + 2) |-> StrokeUpper])}
         ELSE {}

\* the endings of the files of a tree: the scanner's extension in lower and in mixed
\* case, and another extension
WalkSuffixes(scanner) ==
    {Dot(ToLower(scanner.FileExtension)), Dot(Capitalize(ToLower(scanner.FileExtension))),
     <<".", "t", "x", "t">>}

\* the entries of a tree: files, a directory whose name has the extension, and a
\* directory that cannot be read
WalkEntries(scanner) ==
    {[name |-> stem \o suf, isDir |-> FALSE, walkErr |-> FALSE] :
        stem \in WalkStems(scanner), suf \in WalkSuffixes(scanner)}
    \cup {[name |-> <<"d">> \o Dot(ToLower(scanner.FileExtension)), isDir |-> TRUE,
           walkErr |-> FALSE],
          [name |-> <<"d">>, isDir |-> TRUE, walkErr |-> TRUE]}

\* the trees a scanner is sent over
WalkTrees(scanner) ==
    {[stat |-> st, entries |-> <<>>] : st \in {"missing", "file"}}
    \cup {[stat |-> "dir", entries |-> es] :
            es \in UNION {[1..n -> WalkEntries(scanner)] : n \in 0..MaxEntries}}

\* ps.ScanDirectory(dirPath)
Walk ==
    /\ xpc = "ready"
    /\ \E d \in WalkTrees(ps) :
          /\ dir' = d
          /\ scanned' = ScanDirectory(ps, d)
    /\ xpc' = "walked"
    /\ UNCHANGED <<config, dbInstance, mainPc, packages, next, sem, wg, wpc, wpkg, wres,
                   calls, dbRows, summary, apiFile, exit, ps, filename, extracted,
                   deriveVars, tuiVars>>

NextWalk ==
    \/ BuildScanner
    \/ Walk

SpecWalk == InitExtract /\ [][NextWalk]_vars

(***************************************************************************)
(* The reporter on one vulnerability: the two derived fields of the line   *)
(* that DisplayResults logs for it.                                        *)
(***************************************************************************)
\* the package the lookup was about
QueriedName == <<"P">>

\* the metrics of a sample vector: /C:H, /C:M, /C:L and /C:N
Metrics == {<<"/", "C", ":", v>> : v \in {"H", "M", "L", "N"}}

\* CVSS vectors: the prefix CVSS:3 and at most MaxMetrics metrics
Vectors ==
    {<<"C","V","S","S",":","3">> \o Flatten(ms) :
        ms \in UNION {[1..n -> Metrics] : n \in 0..MaxMetrics}}

\* the Severity lists of the sample vulnerabilities: none, one CVSS_V3 entry with a
\* vector, with an empty score, with a score that is no vector, an entry of another
\* type, and two entries of which the second is CVSS_V3 or the first is empty
Severities ==
    {<<>>}
    \cup {<<[Type |-> "CVSS_V3", Score |-> s]>> : s \in Vectors \cup {<<>>, ShortScore, <<"A",":","H","i","g","h">>}}
    \cup {<<[Type |-> "CVSS_V2", Score |-> <<"A","V",":","N","/","C",":","H">>]>>,
          <<[Type |-> "CVSS_V2", Score |-> <<"A","V",":","N","/","C",":","H">>],
            [Type |-> "CVSS_V3", Score |-> CvssVector]>>,
          <<[Type |-> "CVSS_V3", Score |-> <<>>], [Type |-> "CVSS_V3", Score |-> CvssVector]>>}

\* the database_specific severity labels of the sample vulnerabilities
Labels == {<<>>, LabelCritical, LabelHigh, LabelMedium, LabelLow, ToLower(LabelHigh),
           <<"M","o","d","e","r","a","t","e">>}

\* the events of a range, by their Fixed values
EventLists == {<<"">>, <<"1.0">>, <<"", "2.0">>}

\* the affected entries: about the queried package with at most MaxAffected ranges,
\* or about another package
AffectedEntries ==
    {[Name |-> QueriedName, Ranges |-> rs] :
        rs \in UNION {[1..n -> EventLists] : n \in 0..MaxAffected}}
    \cup {[Name |-> <<"Q">>, Ranges |-> << <<"9.9">> >>]}

AffectedLists == UNION {[1..n -> AffectedEntries] : n \in 0..MaxAffected}

\* the vulnerabilities handed to the reporter
SampleVulns ==
    {[ID |-> <<"GHSA", 0>>, Severity |-> sev, DBSpecific |-> label, Affected |-> <<>>] :
        sev \in Severities, label \in Labels}
    \cup {[ID |-> <<"GHSA", 0>>, Severity |-> <<>>, DBSpecific |-> <<>>, Affected |-> aff] :
            aff \in AffectedLists}

\* a lookup has returned a vulnerability and nothing else goes on
InitDerive ==
    /\ ScanIdle /\ ExtractIdle /\ TuiIdle
    /\ hpc = "got"
    /\ hvuln \in SampleVulns
    /\ hout = NoDerived

\* the body of the loop of Reporter.DisplayResults: the severity and fixVersion of
\* the "Vulnerability details" line
DisplayVulnerability ==
    /\ hpc = "got"
    /\ hout' = [severity |-> GetSeverityRating(hvuln),
                fixVersion |-> FindFixVersion(hvuln, QueriedName)]
    /\ hpc' = "shown"
    /\ UNCHANGED <<hvuln, scanVars, xpc, ps, filename, extracted, scanned, tuiVars>>

NextDerive == DisplayVulnerability

SpecDerive == InitDerive /\ [][NextDerive]_vars

(***************************************************************************)
(* The form of the terminal interface (pkg/tui/tui.go).  A text input is   *)
(* [label, focus]; the positions of inputs, dbInputs and logInputs count   *)
(* from 1, activeInput counts from 0 as in the code.  The text typed into  *)
(* an input and the size of the window are left out.                       *)
(***************************************************************************)
\* the labels of the inputs that initializeInputs builds
singlePackageInputs == <<"Package Name", "Version", "Ecosystem">>

dirScanInputs == <<"Directory Path", "File Extension", "Concurrency">>

dbInputLabels ==
    <<"Database Host", "Database Port", "Database User", "Database Password",
      "Database Name", "SSL Mode">>

logInputLabels ==
    <<"Log File Path", "Max Size", "Max Backups", "Max Age", "Log Level", "Log Format">>

\* m.initializeInputs(): the inputs of the mode, the first of them focused, and the
\* database and logging inputs, none of them focused
initializeInputs(mm) ==
    LET inputs == IF mm.Mode = "SinglePackageMode" THEN singlePackageInputs ELSE dirScanInputs
    IN [mm EXCEPT
          !.inputs = [i \in 1..Len(inputs) |-> [label |-> inputs[i], focus |-> i = 1]],
          !.dbInputs = [i \in 1..Len(dbInputLabels) |->
                           [label |-> dbInputLabels[i], focus |-> FALSE]],
          !.logInputs = [i \in 1..Len(logInputLabels) |->
                            [label |-> logInputLabels[i], focus |-> FALSE]]]

\* NewModel()
NewModel ==
    initializeInputs([Mode |-> "SinglePackageMode", showAdvanced |-> FALSE, activeInput |-> 0,
                      inputs |-> <<>>, dbInputs |-> <<>>, logInputs |-> <<>>,
                      ready |-> FALSE, quitting |-> FALSE, inputsSubmitted |-> FALSE])

\* totalInputs of nextInput and prevInput
totalInputs(mm) ==
    Len(mm.inputs) + (IF mm.showAdvanced THEN Len(mm.dbInputs) + Len(mm.logInputs) ELSE 0)

\* "Reset the currently active input": Blur() on the input at activeInput
blurActive(mm) ==
    LET a == mm.activeInput
        n == Len(mm.inputs)
        dbInputCount == Len(mm.dbInputs)
    IN IF a >= 0 /\ a < n THEN [mm EXCEPT !.inputs[a + 1].focus = FALSE]
       ELSE IF mm.showAdvanced
            THEN IF a >= n /\ a < n + dbInputCount
                 THEN [mm EXCEPT !.dbInputs[a - n + 1].focus = FALSE]
                 ELSE IF a >= n + dbInputCount /\ a - n - dbInputCount < Len(mm.logInputs)
                      THEN [mm EXCEPT !.logInputs[a - n - dbInputCount + 1].focus = FALSE]
                      ELSE mm
            ELSE mm

\* "Focus the new active input": Focus() on the input at activeInput
focusActive(mm) ==
    LET a == mm.activeInput
        n == Len(mm.inputs)
        dbInputCount == Len(mm.dbInputs)
    IN IF a < n THEN [mm EXCEPT !.inputs[a + 1].focus = TRUE]
       ELSE IF mm.showAdvanced
            THEN IF a >= n /\ a < n + dbInputCount
                 THEN [mm EXCEPT !.dbInputs[a - n + 1].focus = TRUE]
                 ELSE IF a - n - dbInputCount < Len(mm.logInputs)
                      THEN [mm EXCEPT !.logInputs[a - n - dbInputCount + 1].focus = TRUE]
                      ELSE mm
            ELSE mm

\* m.nextInput()
nextInput(mm) ==
    focusActive([blurActive(mm) EXCEPT !.activeInput = (@ + 1) % totalInputs(mm)])

\* m.prevInput()
prevInput(mm) ==
    focusActive([blurActive(mm) EXCEPT
                    !.activeInput = (@ - 1 + totalInputs(mm)) % totalInputs(mm)])

\* the ToggleMode case of Update
toggleMode(mm) ==
    initializeInputs([mm EXCEPT
        !.Mode = IF @ = "SinglePackageMode" THEN "DirectoryScanMode" ELSE "SinglePackageMode",
        !.activeInput = 0])

\* the ToggleOptions case of Update
toggleOptions(mm) == [mm EXCEPT !.showAdvanced = ~@]

\* the program runs: tea.Quit has not been returned
TuiRunning == model.Mode # "none" /\ ~model.quitting /\ ~model.inputsSubmitted

\* NewModel() handed to tea.NewProgram, nothing else going on
InitTui ==
    /\ ScanIdle /\ ExtractIdle /\ DeriveIdle
    /\ model = NewModel

\* Update on a key of keys.Next; the key then goes to the active input's own Update,
\* which leaves its focus alone
KeyNext ==
    /\ TuiRunning
    /\ model' = nextInput(model)
    /\ UNCHANGED <<scanVars, xpc, ps, filename, extracted, scanned, deriveVars>>

\* Update on a key of keys.Prev
KeyPrev ==
    /\ TuiRunning
    /\ model' = prevInput(model)
    /\ UNCHANGED <<scanVars, xpc, ps, filename, extracted, scanned, deriveVars>>

\* Update on keys.ToggleMode
KeyToggleMode ==
    /\ TuiRunning
    /\ model' = toggleMode(model)
    /\ UNCHANGED <<scanVars, xpc, ps, filename, extracted, scanned, deriveVars>>

\* Update on keys.ToggleOptions
KeyToggleOptions ==
    /\ TuiRunning
    /\ model' = toggleOptions(model)
    /\ UNCHANGED <<scanVars, xpc, ps, filename, extracted, scanned, deriveVars>>

\* Update on keys.Submit: updateConfig, inputsSubmitted and tea.Quit
KeySubmit ==
    /\ TuiRunning
    /\ model' = [model EXCEPT !.inputsSubmitted = TRUE]
    /\ UNCHANGED <<scanVars, xpc, ps, filename, extracted, scanned, deriveVars>>

\* Update on keys.Quit
KeyQuit ==
    /\ TuiRunning
    /\ model' = [model EXCEPT !.quitting = TRUE]
    /\ UNCHANGED <<scanVars, xpc, ps, filename, extracted, scanned, deriveVars>>

\* Update on a tea.WindowSizeMsg
WindowSize ==
    /\ TuiRunning
    /\ model' = [model EXCEPT !.ready = TRUE]
    /\ UNCHANGED <<scanVars, xpc, ps, filename, extracted, scanned, deriveVars>>

NextTui ==
    \/ KeyNext
    \/ KeyPrev
    \/ KeyToggleMode
    \/ KeyToggleOptions
    \/ KeySubmit
    \/ KeyQuit
    \/ WindowSize

SpecTui == InitTui /\ [][NextTui]_vars

(***************************************************************************)
(* Properties of the directory scan and of the Result Policy.              *)
(***************************************************************************)
Min(a, b) == IF a < b THEN a ELSE b

\* the positions of a worker that holds a slot of the semaphore
Holding == {"start", "query", "error", "display", "policy", "release"}

\* the positions of a worker whose deferred calls are over
Over == {"finished", "crash"}

\* the lookups in flight: workers admitted that have not yet released their slot
InFlight == Cardinality({i \in Workers : wpc[i] \in Holding})

\* the outcome slots of the run: one per package, or the slot of the single scan
Outcomes == IF DirectoryMode(config) THEN 1..Len(packages) ELSE {Single}

\* the identity an outcome slot is about
IdentityOf(i) ==
    IF DirectoryMode(config) THEN packages[i]
    ELSE [Name |-> config.PackageName, Version |-> config.PackageVersion,
          Ecosystem |-> config.PackageEcosystem]

\* the lookup of outcome i has returned
Queried(i) == Len(calls[i].query) >= 1

\* the Result Policy step of outcome i is over
PolicyOver(i) ==
    IF DirectoryMode(config) THEN wpc[i] \in {"release", "wgdone", "finished", "crash"}
    ELSE \/ mainPc \in {"s_write", "done"}
         \/ calls[i].saveRet # None

\* the rows of vulnerability_scans stored for outcome i
RowsOf(i) == {r \in dbRows : r.package_name = IdentityOf(i).Name}

\* outcome i went through the worker as the controller promises: one lookup, then
\* either an error line and nothing else, or one report and the save the policy selects
Processed(i) ==
    /\ Len(calls[i].query) = 1
    /\ wres[i].err => calls[i].error = 1 /\ calls[i].results = <<>> /\ calls[i].save = <<>>
    /\ ~wres[i].err => /\ Len(calls[i].results) = 1
                       /\ (config.UseDB /\ Len(wres[i].Vulnerabilities) > 0)
                             => Len(calls[i].save) = 1

\* C1: in a directory scan with concurrency limit C >= 1 the number of lookups in
\* flight (workers admitted by the semaphore that have not released their slot) is
\* at most C in every reachable state, whatever the batch size.
C1_InFlightAtMostC ==
    (DirectoryMode(config) /\ config.Concurrency >= 1) => InFlight <= config.Concurrency

\* C1 witness: all C slots are held while the dispatcher waits to admit one more
\* package of a batch larger than C.
C1_Witness ==
    /\ DirectoryMode(config) /\ config.Concurrency >= 1
    /\ Len(packages) > config.Concurrency
    /\ InFlight = config.Concurrency
    /\ mainPc = "acquire"

\* C2: the batch summary is reported only after every dispatched worker has
\* finished: once DisplayScanSummary has been called, every package's worker has run
\* its lookup, its reporting and persistence steps and its deferred calls, so no
\* DisplayResults, DisplayError or SaveVulnerabilityResults call can follow it.
C2_SummaryAfterAllWorkers ==
    Len(summary) >= 1 =>
        /\ \A i \in 1..Len(packages) : wpc[i] \in Over /\ Queried(i)
        /\ wg = 0 /\ sem = 0

\* C2 witness: the summary of a batch of two, one of whose lookups failed and one of
\* whose outcomes was saved.
C2_Witness ==
    /\ Len(summary) = 1 /\ Len(packages) >= 2
    /\ \E i, j \in 1..Len(packages) : calls[i].error = 1 /\ calls[j].saveRet = "nil"

\* C3: a lookup error of one identity stays with that identity: it gets an error
\* line and neither a DisplayResults nor a SaveVulnerabilityResults call, and when the
\* summary is reported every other identity has been looked up, reported through
\* DisplayResults and handed to SaveVulnerabilityResults when the policy selects it.
C3_LookupFailureIsLocal ==
    /\ \A i \in Workers : wres[i].err => calls[i].results = <<>> /\ calls[i].save = <<>>
    /\ (DirectoryMode(config) /\ Len(summary) >= 1) => \A i \in 1..Len(packages) : Processed(i)

\* C3 witness: at the summary one identity's lookup has failed and another one has
\* been reported and saved.
C3_Witness ==
    /\ DirectoryMode(config) /\ Len(summary) = 1
    /\ \E i, j \in 1..Len(packages) :
          /\ wres[i].err /\ calls[i].error = 1
          /\ ~wres[j].err /\ Len(calls[j].results) = 1 /\ Len(calls[j].save) = 1

\* C4: Result Policy, in both modes: SaveVulnerabilityResults is called at most
\* once per outcome, and it is called if and only if persistence is enabled, the
\* lookup returned no error and the vulnerability list is not empty.
C4_SaveIffPolicy ==
    \A i \in Workers :
        /\ Len(calls[i].save) <= 1
        /\ Len(calls[i].save) = 1 =>
              /\ config.UseDB /\ Queried(i)
              /\ ~wres[i].err /\ Len(wres[i].Vulnerabilities) > 0
        /\ (i \in Outcomes /\ Queried(i) /\ PolicyOver(i) /\ config.UseDB
              /\ ~wres[i].err /\ Len(wres[i].Vulnerabilities) > 0)
              => Len(calls[i].save) = 1

\* C4 witness: with persistence enabled, one outcome with vulnerabilities has been
\* saved and one without any has passed the policy unsaved.
C4_Witness ==
    /\ config.UseDB /\ DirectoryMode(config)
    /\ \E i, j \in 1..Len(packages) :
          /\ Len(calls[i].save) = 1
          /\ PolicyOver(j) /\ ~wres[j].err /\ Len(calls[j].results) = 1
          /\ wres[j].Vulnerabilities = <<>> /\ calls[j].save = <<>>

\* the dispatch loop and the wait of the directory scan
Dispatching == DirectoryMode(config) /\ mainPc \in {"add", "acquire", "wait"}

\* C5 as stated: at any instant of a directory scan exactly min(C, batch-size)
\* lookups are in flight.
C5_ExactlyMinInFlight ==
    (Dispatching /\ config.Concurrency >= 1) =>
        InFlight = Min(config.Concurrency, Len(packages))

\* C5 amended: at most min(C, batch-size) lookups are in flight at any instant of a
\* directory scan, and a new worker is admitted only from a state in which fewer than
\* C slots are held.
C5_AtMostMinInFlight ==
    /\ [](DirectoryMode(config) /\ config.Concurrency >= 1
            => InFlight <= Min(config.Concurrency, Len(packages)))
    /\ [][next' > next => InFlight < config.Concurrency /\ InFlight' = InFlight + 1]_vars

\* C5 witness: min(C, batch-size) lookups are in flight and the dispatcher is held
\* at the admission of the next package.
C5_Witness ==
    /\ Dispatching /\ config.Concurrency >= 1
    /\ mainPc = "acquire"
    /\ InFlight = Min(config.Concurrency, Len(packages))

\* C6: in every mode in which the orchestrator persists an outcome, an error
\* returned by SaveVulnerabilityResults is logged and does not abort the run: the
\* process does not exit with a failure status because of it.
C6_SaveErrorNeverAborts ==
    \A i \in Workers : calls[i].saveRet = "err" => exit # "exit1"

\* What the directory scan does keep of it: a persistence error of one outcome is
\* logged, the worker goes on to its deferred calls, the process does not exit with
\* a failure, and at the summary every outcome has been looked up, reported and
\* handed to SaveVulnerabilityResults as the policy selects.  The single-package
\* scan logs the error and exits with status 1 (controller.go:112-115).
SaveErrorIsLocalInDirectoryMode ==
    DirectoryMode(config) =>
        \A i \in Workers : calls[i].saveRet = "err" =>
            /\ calls[i].error = 1
            /\ wpc[i] \in {"release", "wgdone", "finished"}
            /\ exit # "exit1"
            /\ exit = "panic" => \E j \in Workers : calls[j].saveRet = "panic"
            /\ Len(summary) >= 1 => \A j \in 1..Len(packages) : Processed(j)

\* the summary of a directory scan in which one save failed and another outcome
\* was stored
SaveErrorInDirectoryModeSeen ==
    /\ DirectoryMode(config) /\ Len(summary) = 1
    /\ \E i, j \in 1..Len(packages) :
          /\ calls[i].saveRet = "err"
          /\ calls[j].saveRet = "nil" /\ RowsOf(j) # {}

\* the rows of outcome i are one per vulnerability of its lookup, in list order, each
\* with the identity and the raw response of that lookup
OneRowPerVulnerability(i) ==
    /\ Cardinality(RowsOf(i)) = Len(wres[i].Vulnerabilities)
    /\ \A j \in 1..Len(wres[i].Vulnerabilities) :
          \E r \in RowsOf(i) :
              /\ r.ord = j
              /\ r.vuln_id = wres[i].Vulnerabilities[j].ID
              /\ r.raw_response = wres[i].body
              /\ r.package_name = IdentityOf(i).Name
              /\ r.ecosystem = IdentityOf(i).Ecosystem
              /\ r.version = IdentityOf(i).Version

\* C7: with persistence enabled, an outcome with k >= 1 vulnerabilities is always
\* persisted as exactly k rows, one per vulnerability in list order, all with the same
\* raw response and the identity's name, ecosystem and version, and an outcome with
\* zero vulnerabilities causes no row to be written.  Stated for the runs in which
\* the database itself reports no error to SaveVulnerabilityResults.
C7_AlwaysOneRowPerVulnerability ==
    \A i \in Outcomes :
        (config.UseDB /\ Queried(i) /\ ~wres[i].err /\ PolicyOver(i)
            /\ calls[i].saveRet # "err")
            => OneRowPerVulnerability(i)

\* What SaveVulnerabilityResults does keep of it: a call that returns nil has stored
\* exactly k rows, one per vulnerability in list order, with the same raw response
\* and the identity's name, ecosystem and version; a call that returns an error or
\* panics (extractCVSSScore, tui.go:978, on a score of one to three characters)
\* stores no row; an outcome with zero vulnerabilities causes no row at all.
RowsWhenSaveSucceeds ==
    \A i \in Outcomes :
        (config.UseDB /\ Queried(i) /\ ~wres[i].err /\ PolicyOver(i)) =>
            /\ Len(wres[i].Vulnerabilities) >= 1 => calls[i].saveRet # None
            /\ calls[i].saveRet = "nil" => OneRowPerVulnerability(i)
            /\ calls[i].saveRet # "nil" => RowsOf(i) = {}
            /\ Len(wres[i].Vulnerabilities) = 0 => RowsOf(i) = {}

\* an outcome with two vulnerabilities has been saved as two rows
TwoRowsSaved ==
    \E i \in Outcomes :
        /\ config.UseDB /\ PolicyOver(i) /\ calls[i].saveRet = "nil"
        /\ Len(wres[i].Vulnerabilities) = 2
        /\ Cardinality(RowsOf(i)) = 2

(***************************************************************************)
(* Properties of identity extraction, over SpecExtract.                    *)
(***************************************************************************)
\* ExtractPackageInfo has returned for a scanner whose extension selects parser ext
ExtractedWith(exts) == xpc = "extracted" /\ ToLower(ps.FileExtension) \in exts

\* C8: every PackageInfo that ExtractPackageInfo returns without error, for every
\* filename and every configured extension, has a non-empty Name and a non-empty
\* Version.
C8_IdentityFullyPopulated ==
    (xpc = "extracted" /\ ~extracted.err) => extracted.Name # <<>> /\ extracted.Version # <<>>

\* the last three of the dot-separated segments are numbers and at least one name
\* segment stands before them
NuGetFormOf(parts) ==
    /\ Len(parts) >= 4
    /\ \A i \in (Len(parts) - 2)..Len(parts) : IsDigits(parts[i])

\* the split that the form N1.N2....Nk.maj.min.patch names
NuGetExpected(parts) ==
    /\ ~extracted.err
    /\ extracted.Name = Join(SubSeq(parts, 1, Len(parts) - 3), ".")
    /\ extracted.Version = Join(SubSeq(parts, Len(parts) - 2, Len(parts)), ".")

\* the segments of a filename that ends in .nupkg
NuGetSegments(f) == Split(SubSeq(f, 1, Len(f) - Len(Dot(ExtNupkg))), ".")

\* C9 as stated: every filename N1.N2....Nk.maj.min.patch.nupkg with k >= 1 name
\* segments and three numeric version components is split into name N1.N2....Nk and
\* version maj.min.patch.
C9_NuGetSplitOfEveryForm ==
    (ExtractedWith({ExtNupkg}) /\ HasSuffix(filename, Dot(ExtNupkg))) =>
        \A parts \in {NuGetSegments(filename)} :
            NuGetFormOf(parts) => NuGetExpected(parts)

\* C9 amended: every filename N1.N2....Nk.maj.min.patch.nupkg with k >= 1 name
\* segments, three numeric version components and a last name segment Nk that is not
\* itself a number is split into name N1.N2....Nk and version maj.min.patch.  (A
\* numeric Nk is taken as the first component of a longer version.)
C9_NuGetSplit ==
    (ExtractedWith({ExtNupkg}) /\ HasSuffix(filename, Dot(ExtNupkg))) =>
        \A parts \in {NuGetSegments(filename)} :
            (NuGetFormOf(parts) /\ ~IsDigits(parts[Len(parts) - 3])) => NuGetExpected(parts)

\* C9 witness: a filename with two name segments and a three-component version has
\* been split into its dotted name and its version.
C9_Witness ==
    /\ ExtractedWith({ExtNupkg}) /\ HasSuffix(filename, Dot(ExtNupkg))
    /\ \E parts \in {NuGetSegments(filename)} :
          /\ Len(parts) >= 5 /\ NuGetFormOf(parts) /\ ~IsDigits(parts[Len(parts) - 3])
          /\ extracted.Name = Join(SubSeq(parts, 1, Len(parts) - 3), ".")
          /\ Len(extracted.Name) >= 3

\* what is left of an npm filename once the extension is removed
NpmBaseOf(f) == TrimSuffix(TrimSuffix(f, Dot(ExtTgz)), Dot(ExtTarGz))

\* base is <name>-<maj>.<min>.<patch> with the hyphen at position p
NpmFormAt(base, p) == base[p] = "-" /\ IsDotted(From(base, p + 1), 3, 3)

\* a hyphen of the name is followed by a three-component dotted version that ends
\* the name or is followed by another hyphen
NameHidesVersion(name) ==
    \E p \in 1..Len(name) : \E e \in (p + 1)..Len(name) :
        /\ name[p] = "-"
        /\ IsDotted(SubSeq(name, p + 1, e), 3, 3)
        /\ (e = Len(name) \/ name[e + 1] = "-")

\* the split that the form <name>-<maj>.<min>.<patch> names
NpmExpected(base, p) ==
    /\ ~extracted.err
    /\ extracted.Name = SubSeq(base, 1, p - 1)
    /\ extracted.Version = From(base, p + 1)

\* base ends in a hyphen and a three-component dotted version
EndsInVersion(base) == \E p \in 1..Len(base) : NpmFormAt(base, p)

\* base ends in a hyphen, a three-component dotted version and an optional
\* pre-release tag: a hyphen and letters, digits, dots and hyphens
EndsInTaggedVersion(base) ==
    \E p \in 1..Len(base) : \E e \in (p + 1)..Len(base) :
        /\ base[p] = "-"
        /\ IsDotted(SubSeq(base, p + 1, e), 3, 3)
        /\ IsPreOpt(From(base, e + 1))

\* ExtractPackageInfo has returned for an npm scanner and a filename in .tgz or .tar.gz
NpmExtracted ==
    /\ ExtractedWith({ExtTgz, ExtTarGz})
    /\ (HasSuffix(filename, Dot(ExtTgz)) \/ HasSuffix(filename, Dot(ExtTarGz)))

NpmRefused ==
    /\ NpmExtracted /\ extracted.err
    /\ ~EndsInTaggedVersion(NpmBaseOf(filename))
    /\ Len(filename) > Len(Dot(ExtTgz))

\* the extension of a filename that the scanner's suffix test accepts: its last
\* Len(FileExtension) bytes
ExtensionOf(f, scanner) == From(f, Len(f) - Len(scanner.FileExtension) + 1)

\* C11: round trip: for every identity that extraction produces, under any
\* configuration that can be supplied, the ecosystem that the extension lookup table
\* gives for the extension of the identity's filename is the identity's Ecosystem.
C11_EcosystemRoundTrip ==
    (xpc = "extracted" /\ ~extracted.err /\ ~extracted.panic /\ MatchesExtension(ps, filename))
        => extracted.Ecosystem = determineEcosystem(ExtensionOf(filename, ps))

\* What does hold of it: the identity carries the scanner's ecosystem, which is the
\* table's when NewPackageScanner was given no ecosystem.
EcosystemIsTheScanners ==
    (xpc = "extracted" /\ ~extracted.err /\ ~extracted.panic) =>
        /\ extracted.Ecosystem = ps.Ecosystem
        /\ ps.Ecosystem \in {"NuGet", determineEcosystem(ps.FileExtension)}

(***************************************************************************)
(* Properties of the directory walk, over SpecWalk.                        *)
(***************************************************************************)
\* name ends, whatever the case of its letters, in "." + ext
EndsInExtension(name, ext) ==
    \E k \in 1..Len(name) : ToLower(From(name, k)) = <<".">> \o ToLower(ext)

\* the files of the walked tree whose name has the scanner's extension
MatchingFiles == SelectSeq(dir.entries, LAMBDA d : ~d.isDir /\ EndsInExtension(d.name, ps.FileExtension))

\* those of them that ExtractPackageInfo refuses with an error
MalformedFiles == SelectSeq(MatchingFiles, LAMBDA d : ExtractPackageInfo(ps, d.name).err)

\* those of them that ExtractPackageInfo splits
ParsedFiles == SelectSeq(MatchingFiles, LAMBDA d : ~ExtractPackageInfo(ps, d.name).err)

\* ScanDirectory has returned or panicked on a root that is a directory
WalkedDirectory == xpc = "walked" /\ dir.stat = "dir"

\* the traversal met a directory that could not be read
MetReadError == \E i \in 1..Len(dir.entries) : dir.entries[i].walkErr

\* C12: ScanDirectory over a tree with parseable and malformed filenames returns one
\* identity for each file whose name ends case-insensitively in "." + extension and
\* parses, in traversal order, and none for any other file: as many identities as
\* matching files minus malformed ones; a file that cannot be parsed never makes the
\* walk abort or return an error.
C12_WalkSkipsMalformed ==
    (WalkedDirectory /\ ~MetReadError) =>
        /\ ~scanned.err /\ ~scanned.panic
        /\ Len(scanned.packages) = Len(MatchingFiles) - Len(MalformedFiles)
        /\ \A i \in 1..Len(ParsedFiles) :
              scanned.packages[i] = PackageInfoOf(ExtractPackageInfo(ps, ParsedFiles[i].name))

\* What does hold of it: the same, over the trees none of whose matching files makes
\* the parser panic.
WalkSkipsMalformedUnlessPanic ==
    (WalkedDirectory /\ ~MetReadError /\ ~scanned.panic) =>
        /\ ~scanned.err
        /\ Len(scanned.packages) = Len(MatchingFiles) - Len(MalformedFiles)
        /\ \A i \in 1..Len(scanned.packages) :
              scanned.packages[i] = PackageInfoOf(ExtractPackageInfo(ps, ParsedFiles[i].name))

\* a walk over a tree with a parsed, a malformed and a foreign file has returned one
\* identity
MixedTreeWalked ==
    /\ WalkedDirectory /\ ~scanned.err /\ ~scanned.panic
    /\ Len(dir.entries) = 3 /\ Len(MatchingFiles) = 2 /\ Len(MalformedFiles) = 1
    /\ Len(scanned.packages) = 1

\* C13: ScanDirectory returns an error only if the root path does not exist or is
\* not a directory; for a root that is a directory it returns the list of identities
\* whatever the traversal meets.
C13_ErrorOnlyForBadRoot ==
    xpc = "walked" =>
        /\ scanned.err => dir.stat # "dir"
        /\ dir.stat = "dir" => ~scanned.err /\ ~scanned.panic

\* What does hold of it: a root that is missing or not a directory is an error, and
\* over a directory an error is returned only for a directory that cannot be read.
ErrorOnlyForBadRootOrReadError ==
    xpc = "walked" =>
        /\ dir.stat # "dir" => scanned.err
        /\ (dir.stat = "dir" /\ scanned.err) => MetReadError

(***************************************************************************)
(* Properties of the derived fields, over SpecDerive.                      *)
(***************************************************************************)
\* the number of places of the vector at which the two-character token stands
Tokens(vector, letter) ==
    Cardinality({i \in 1..(Len(vector) - 1) : vector[i] = ":" /\ vector[i + 1] = letter})

\* 3 * #":H" + 2 * #":M" + #":L"
RawScore(vector) == 3 * Tokens(vector, "H") + 2 * Tokens(vector, "M") + Tokens(vector, "L")

\* the score min(10, raw), written X.X/10
ScoreText(vector) == FormatScore[Min(10, RawScore(vector)) + 1]

\* the bucket of a label, whatever the case of its letters
BucketOf(label) ==
    CASE ToUpper(label) = LabelCritical -> "9.0+/10"
      [] ToUpper(label) = LabelHigh -> "7.0-8.9/10"
      [] ToUpper(label) = LabelMedium -> "4.0-6.9/10"
      [] ToUpper(label) = LabelLow -> "0.1-3.9/10"
      [] OTHER -> "Unknown"

\* the CVSS_V3 entries of the reported vulnerability, and those that hold a vector
CvssEntries == {i \in 1..Len(hvuln.Severity) : hvuln.Severity[i].Type = "CVSS_V3"}

VectorEntries == {i \in CvssEntries : hvuln.Severity[i].Score # <<>>}

\* the first entry of a non-empty set of entries
FirstOf(entries) == CHOOSE i \in entries : \A j \in entries : i <= j

\* C14 as stated: when the vulnerability carries a CVSS v3 vector the rating is
\* min(10, 3h + 2m + l) written X.X/10, h, m and l being the numbers of :H, :M and :L
\* tokens of the vector; when no CVSS vector is present it is the bucket of the
\* textual label, and otherwise "Unknown".
C14_SeverityOfVectorOrLabel ==
    hpc = "shown" =>
        IF VectorEntries # {}
        THEN hout.severity = ScoreText(hvuln.Severity[FirstOf(VectorEntries)].Score)
        ELSE hout.severity = BucketOf(hvuln.DBSpecific)

\* C14 amended: when the vulnerability carries a CVSS_V3 severity entry the rating
\* comes from the score of the first such entry: "N/A" when that score is empty,
\* and otherwise min(10, 3h + 2m + l) written X.X/10 (two :H tokens and nothing else
\* give 6.0/10, a raw score above 10 gives 10.0/10); when it carries no CVSS_V3 entry
\* the rating is the bucket of the textual label, compared whatever its case
\* (CRITICAL 9.0+/10, HIGH 7.0-8.9/10, MEDIUM 4.0-6.9/10, LOW 0.1-3.9/10), and
\* otherwise "Unknown".
C14_Severity ==
    hpc = "shown" =>
        /\ CvssEntries # {} =>
              \A score \in {hvuln.Severity[FirstOf(CvssEntries)].Score} :
                  /\ score = <<>> => hout.severity = "N/A"
                  /\ score # <<>> => hout.severity = ScoreText(score)
                  /\ (RawScore(score) = 6 /\ score # <<>>) => hout.severity = "6.0/10"
                  /\ RawScore(score) > 10 => hout.severity = "10.0/10"
        /\ CvssEntries = {} => hout.severity = BucketOf(hvuln.DBSpecific)
        /\ (CvssEntries = {} /\ hvuln.DBSpecific = LabelCritical) => hout.severity = "9.0+/10"
        /\ (CvssEntries = {} /\ hvuln.DBSpecific = <<>>) => hout.severity = "Unknown"

\* C14 witness: a vector of four :H tokens, whose raw score is 12, has been rated
\* 10.0/10.
C14_Witness ==
    /\ hpc = "shown" /\ Len(hvuln.Severity) = 1 /\ CvssEntries # {}
    /\ Tokens(hvuln.Severity[1].Score, "H") = 4
    /\ hout.severity = "10.0/10"

\* a label has been rated by its bucket
LabelRated ==
    /\ hpc = "shown" /\ CvssEntries = {} /\ hvuln.DBSpecific = LabelMedium
    /\ hout.severity = "4.0-6.9/10"

\* the places (entry, range, event) of the affected entries about the queried
\* package at which an event has a Fixed value
FixPlaces ==
    {<<a, r, e>> \in (1..MaxAffected) \X (1..MaxAffected) \X (1..2) :
        /\ a <= Len(hvuln.Affected)
        /\ hvuln.Affected[a].Name = QueriedName
        /\ r <= Len(hvuln.Affected[a].Ranges)
        /\ e <= Len(hvuln.Affected[a].Ranges[r])
        /\ hvuln.Affected[a].Ranges[r][e] # ""}

\* place p comes no later than place q in entry, range and event order
NoLater(p, q) ==
    \/ p[1] < q[1]
    \/ p[1] = q[1] /\ p[2] < q[2]
    \/ p[1] = q[1] /\ p[2] = q[2] /\ p[3] <= q[3]

\* C15: FindFixVersion returns the first non-empty Fixed value, in range order and
\* event order, of the affected entries whose package name is the queried name, and
\* the sentinel "No fix version found" when there is none; never the empty string.
C15_FixVersion ==
    hpc = "shown" =>
        /\ hout.fixVersion # ""
        /\ FixPlaces = {} => hout.fixVersion = "No fix version found"
        /\ \A p \in FixPlaces :
              (\A q \in FixPlaces : NoLater(p, q))
                  => hout.fixVersion = hvuln.Affected[p[1]].Ranges[p[2]][p[3]]

\* C15 witness: the fix was found in the second event of the second range of the
\* second entry, the first entry being about another package.
C15_Witness ==
    /\ hpc = "shown" /\ Len(hvuln.Affected) = 2
    /\ hvuln.Affected[1].Name # QueriedName
    /\ FixPlaces = {<<2, 2, 2>>}
    /\ hout.fixVersion = "2.0"

\* nothing fixes the queried package and the sentinel has been returned
NoFixReported ==
    /\ hpc = "shown" /\ Len(hvuln.Affected) = 2 /\ FixPlaces = {}
    /\ hvuln.Affected[1].Name # QueriedName
    /\ hout.fixVersion = "No fix version found"

(***************************************************************************)
(* Failures of ExtractPackageInfo, over SpecExtract.                       *)
(***************************************************************************)
\* C16: ExtractPackageInfo returns an extraction error, and never panics, for every
\* filename that is empty, that lacks an extension or from which no separator and
\* version pattern can be recovered, whichever parser the extension selects: every
\* call returns, and it returns an error for the empty and for the dot-less filename.
C16_FailureIsAnError ==
    xpc = "extracted" =>
        /\ ~extracted.panic
        /\ (filename = <<>> \/ IndexChar(filename, ".") = 0) => extracted.err

\* What does hold of it: the empty filename is refused with an error by every parser,
\* and only the generic parser panics.
EmptyFilenameRefused ==
    xpc = "extracted" =>
        /\ filename = <<>> => extracted.err
        /\ extracted.panic => EcosystemOf(ToLower(ps.FileExtension)) = "Unknown"

\* the generic parser has panicked on a filename that ends in a dot
GenericPanicSeen ==
    /\ xpc = "extracted" /\ extracted.panic
    /\ HasSuffix(filename, <<".">>)

\* a filename without any dot has been split into a name and a version
DotlessAccepted ==
    /\ xpc = "extracted" /\ ~extracted.err /\ ~extracted.panic
    /\ IndexChar(filename, ".") = 0

(***************************************************************************)
(* Letter case, over SpecWalk and SpecExtract.                             *)
(***************************************************************************)
\* sub stands in s, character for character
Contains(s, sub) ==
    \E i \in 1..(Len(s) + 1) :
        /\ i + Len(sub) - 1 <= Len(s)
        /\ \A k \in 1..Len(sub) : s[i + k - 1] = sub[k]

\* s has a letter in lower case and a letter in upper case
MixedCase(s) == (\E i \in 1..Len(s) : IsLower(s[i])) /\ (\E i \in 1..Len(s) : IsUpper(s[i]))

\* C17: every parser preserves letter case: the Name and the Version of each identity
\* a walk returns are contiguous substrings of the filename it was extracted from,
\* character for character, and the identity is the one ExtractPackageInfo returned,
\* whether or not the case-sensitivity warning was logged for it.
C17_CasePreserved ==
    (xpc = "walked" /\ ~scanned.err /\ ~scanned.panic) =>
        \A parsed \in {ParsedFiles} :
            /\ Len(scanned.packages) = Len(parsed)
            /\ scanned.warnings \subseteq 1..Len(scanned.packages)
            /\ \A i \in 1..Len(scanned.packages) :
                  /\ Contains(parsed[i].name, scanned.packages[i].Name)
                  /\ Contains(parsed[i].name, scanned.packages[i].Version)
                  /\ scanned.packages[i] = PackageInfoOf(ExtractPackageInfo(ps, parsed[i].name))

\* C17 witness: a walk has returned an identity whose name is in mixed case, and the
\* warning was logged for it.
C17_Witness ==
    /\ xpc = "walked" /\ ~scanned.err /\ ~scanned.panic
    /\ \E i \in scanned.warnings :
          /\ MixedCase(scanned.packages[i].Name)
          /\ scanned.packages[i].Name = <<"B", "b">>

\* the same of ExtractPackageInfo alone, over all the filenames given to it
ParsersPreserveCase ==
    (xpc = "extracted" /\ ~extracted.err /\ ~extracted.panic) =>
        /\ Contains(filename, extracted.Name)
        /\ Contains(filename, extracted.Version)

\* a name in mixed case has been extracted
MixedCaseExtracted ==
    /\ xpc = "extracted" /\ ~extracted.err /\ ~extracted.panic
    /\ MixedCase(extracted.Name)

(***************************************************************************)
(* The Maven parser, over SpecExtract.                                     *)
(***************************************************************************)
\* ExtractPackageInfo has returned for a jar scanner and a filename in .jar
JarExtracted == ExtractedWith({ExtJar}) /\ HasSuffix(filename, Dot(ExtJar))

\* the filename without its .jar
JarBase == SubSeq(filename, 1, Len(filename) - Len(Dot(ExtJar)))

\* a hyphen at p followed, up to e, by digits.digits, optional .digits and an
\* optional pre-release tag
JarPatternAt(base, p, e) == base[p] = "-" /\ IsVersion(SubSeq(base, p + 1, e), 2, 3)

\* the places where the pattern occurs in base
JarPatternPlaces(base) ==
    {pe \in (1..Len(base)) \X (1..Len(base)) : pe[1] < pe[2] /\ JarPatternAt(base, pe[1], pe[2])}

\* the match: the leftmost place, and the longest there
JarMatch(places) ==
    CHOOSE pe \in places : \A qr \in places : pe[1] < qr[1] \/ (pe[1] = qr[1] /\ pe[2] >= qr[2])

\* C18: for every .jar filename in which the pattern hyphen, digits.digits, optional
\* .digits, optional pre-release occurs, the Maven parser returns the matched text
\* without its hyphen as the version and, as the name, exactly what precedes the
\* matched hyphen in the filename without its extension, whatever follows the match.
C18_JarNameBeforeMatch ==
    (JarExtracted /\ JarPatternPlaces(JarBase) # {}) =>
        \A m \in {JarMatch(JarPatternPlaces(JarBase))} :
            /\ ~extracted.err
            /\ extracted.Version = SubSeq(JarBase, m[1] + 1, m[2])
            /\ extracted.Name = SubSeq(JarBase, 1, m[1] - 1)

\* What does hold of it: the version is the matched text, and the name is what
\* precedes the matched hyphen when the match ends the filename without its
\* extension; when text follows the match, the name runs on beyond the matched
\* hyphen.
JarSplitWhenMatchEndsName ==
    (JarExtracted /\ JarPatternPlaces(JarBase) # {}) =>
        \A m \in {JarMatch(JarPatternPlaces(JarBase))} :
            /\ ~extracted.err
            /\ extracted.Version = SubSeq(JarBase, m[1] + 1, m[2])
            /\ m[2] = Len(JarBase) => extracted.Name = SubSeq(JarBase, 1, m[1] - 1)
            /\ m[2] < Len(JarBase) =>
                  /\ HasPrefix(JarBase, extracted.Name)
                  /\ Len(extracted.Name) >= m[1]

\* B-1.2.3B.jar has been split into the name B-1.2.3B and the version 1.2.3
JarNameKeepsVersion ==
    /\ JarExtracted
    /\ filename = <<"B", "-", "1", ".", "2", ".", "3", "B">> \o Dot(ExtJar)
    /\ extracted.Name = <<"B", "-", "1", ".", "2", ".", "3", "B">>
    /\ extracted.Version = <<"1", ".", "2", ".", "3">>

(***************************************************************************)
(* The generic parser, over SpecExtract.                                   *)
(***************************************************************************)
\* ExtractPackageInfo has returned for a scanner whose extension has no parser of
\* its own
GenericExtracted == xpc = "extracted" /\ EcosystemOf(ToLower(ps.FileExtension)) = "Unknown"

\* the filename without its final .ext; there must be a dot
StrippedOfExt(f) == SubSeq(f, 1, LastIndexChar(f, ".") - 1)

\* the segment ends in digits.digits, optional .digits and an optional pre-release
LooseVersionEnds(segment) ==
    \E k \in 1..Len(segment) : \E e \in k..Len(segment) :
        /\ IsDotted(SubSeq(segment, k, e), 2, 3)
        /\ IsPreOpt(From(segment, e + 1))

\* the separator occurs in base and the segment after its last occurrence is a version
SeparatorSucceeds(base, sep) ==
    /\ LastIndexChar(base, sep) > 0
    /\ LooseVersionEnds(From(base, LastIndexChar(base, sep) + 1))

\* the separators that succeed on base, by their rank in "-", "_", "."
Succeeding(base) == {i \in 1..3 : SeparatorSucceeds(base, <<"-", "_", ".">>[i])}

\* what the fallback is to return for base: the segments before the last and the last
\* segment for the first separator that succeeds, a failure if none does
GenericExpected(base, ok) ==
    IF ok = {} THEN [err |-> TRUE, Name |-> <<>>, Version |-> <<>>]
    ELSE [err |-> FALSE,
          Name |-> SubSeq(base, 1, LastIndexChar(base, <<"-", "_", ".">>[FirstOf(ok)]) - 1),
          Version |-> From(base, LastIndexChar(base, <<"-", "_", ".">>[FirstOf(ok)]) + 1)]

\* what the fallback is to return for a filename
GenericExpectedOf(f) ==
    IF LastIndexChar(f, ".") = 0 THEN [err |-> TRUE, Name |-> <<>>, Version |-> <<>>]
    ELSE GenericExpected(StrippedOfExt(f), Succeeding(StrippedOfExt(f)))

\* C20: for an extension without a parser of its own, the parser strips the final
\* .ext, tries the separators "-", "_", "." in that order, and returns the segments
\* before the last, joined by the separator, and the last segment for the first
\* separator whose last segment matches digits.digits[.digits][-prerelease]; it
\* returns an extraction failure if no separator succeeds.
C20_GenericFallback ==
    GenericExtracted =>
        /\ ~extracted.panic
        /\ [err |-> extracted.err, Name |-> extracted.Name, Version |-> extracted.Version]
               = GenericExpectedOf(filename)

\* What does hold of it: the same for the filenames whose lower case has their length.
GenericFallbackOfASCII ==
    (GenericExtracted /\ IsASCII(filename)) =>
        /\ ~extracted.panic
        /\ [err |-> extracted.err, Name |-> extracted.Name, Version |-> extracted.Version]
               = GenericExpectedOf(filename)

\* an underscore was the first separator to succeed
UnderscoreSplit ==
    /\ GenericExtracted /\ ~extracted.err /\ ~extracted.panic
    /\ Succeeding(StrippedOfExt(filename)) = {2}
    /\ extracted.Name = <<"B">>

\* a filename that the fallback is to split has been refused
GenericRefusedSplit ==
    /\ GenericExtracted /\ extracted.err
    /\ ~GenericExpectedOf(filename).err

(***************************************************************************)
(* Termination of the directory scan, over SpecLive.                       *)
(***************************************************************************)
\* runDirectoryScan has the batch and a semaphore of capacity C >= 1
ScanStarted == Dispatching /\ config.Concurrency >= 1

\* a persistence call did not return: it panicked
SaveNeverReturned == \E i \in Workers : calls[i].saveRet = "panic"

\* Done: every identity is dispatched, every worker has finished, and the summary has
\* been reported once
ScanDone ==
    /\ mainPc = "done"
    /\ next = Len(packages) + 1
    /\ \A i \in 1..Len(packages) : wpc[i] = "finished"
    /\ wg = 0 /\ sem = 0
    /\ summary = <<Len(packages)>>

\* C19: a directory scan started with concurrency limit C >= 1 over a finite batch, in
\* which every lookup and every persistence call returns, eventually reaches Done:
\* every identity is dispatched, every worker finishes, and the batch summary is
\* reported exactly once.
C19_ScanReachesDone ==
    /\ [](~SaveNeverReturned) => (ScanStarted ~> ScanDone)
    /\ [](Len(summary) <= 1)

\* C19 witness: Done is reached for a batch of two dispatched through one slot.
C19_Witness ==
    /\ ScanDone /\ DirectoryMode(config)
    /\ config.Concurrency = 1 /\ Len(packages) = 2

\* with a limit of zero the scan of a batch that is not empty never reaches Done
ScanReachesDoneWhateverLimit == (Dispatching /\ ~SaveNeverReturned) ~> (ScanDone \/ SaveNeverReturned)

(***************************************************************************)
(* The mode of a run, over Spec.                                           *)
(***************************************************************************)
\* both the directory and the extension are configured
BothGiven == config.DirectoryPath # <<>> /\ config.FileExtension # <<>>

\* runDirectoryScan has been entered
DirectoryScanRan ==
    \/ mainPc \in {"scan", "add", "acquire", "wait"}
    \/ summary # <<>>
    \/ packages # <<>>
    \/ \E i \in Workers : wpc[i] # "unborn"

\* runSinglePackageScan has been entered
SingleScanRan ==
    \/ mainPc \in {"s_query", "s_display", "s_save", "s_write"}
    \/ apiFile.written

\* C21: Controller.Run performs a directory scan if and only if both DirectoryPath and
\* FileExtension are non-empty, and otherwise exactly one single-package scan of
\* (PackageName, PackageVersion, PackageEcosystem); exactly one of the two modes runs.
C21_ModeSelection ==
    /\ DirectoryScanRan => BothGiven /\ ~SingleScanRan
    /\ SingleScanRan => ~BothGiven /\ ~DirectoryScanRan
    /\ mainPc # "run" => (DirectoryScanRan \/ SingleScanRan \/ mainPc = "done")
    /\ (mainPc # "run" /\ ~BothGiven) =>
          /\ Len(calls[Single].query) <= 1
          /\ \A k \in 1..Len(calls[Single].query) :
                calls[Single].query[k] = QueryArgs(config.PackageName, config.PackageVersion,
                                                   config.PackageEcosystem)
          /\ \A i \in Workers \ {Single} : calls[i] = NoCalls
          /\ mainPc # "s_query" => Len(calls[Single].query) = 1
    /\ (mainPc = "done" /\ BothGiven) => Len(summary) = 1 /\ ~apiFile.written
    /\ (mainPc = "done" /\ ~BothGiven) => summary = <<>> /\ Len(calls[Single].query) = 1

\* C21 witness: a directory is configured but no extension, and the run was one
\* single-package scan.
C21_Witness ==
    /\ config.DirectoryPath # <<>> /\ config.FileExtension = <<>>
    /\ mainPc = "done"
    /\ Len(calls[Single].query) = 1
    /\ apiFile.written

\* a directory scan has run to its summary
DirectoryScanSeen == BothGiven /\ mainPc = "done" /\ Len(summary) = 1

(***************************************************************************)
(* What a worker passes on, over Spec.                                     *)
(***************************************************************************)
\* the identity the walker makes of the i-th file of the scanned directory, the
\* first entry of the walk being the root
WalkerIdentity(i) ==
    PackageInfoOf(ExtractPackageInfo(NewPackageScanner(config.FileExtension,
                                                       config.PackageEcosystem),
                                     dir.entries[i + 1].name))

\* what the worker of the i-th identity passed to the lookup, to the Reporter and to
\* SaveVulnerabilityResults is the identity id and the answer of its own lookup
PassedOn(i, id) ==
    /\ packages[i] = id
    /\ wpc[i] # "unborn" => wpkg[i] = id
    /\ \A k \in 1..Len(calls[i].query) :
          calls[i].query[k] = [name |-> id.Name, version |-> id.Version,
                               ecosystem |-> id.Ecosystem]
    /\ \A k \in 1..Len(calls[i].results) :
          /\ calls[i].results[k].name = id.Name
          /\ calls[i].results[k].vulnerabilities = wres[i].Vulnerabilities
    /\ \A k \in 1..Len(calls[i].save) :
          /\ calls[i].save[k] = [name |-> id.Name, ecosystem |-> id.Ecosystem,
                                 version |-> id.Version,
                                 vulnerabilities |-> wres[i].Vulnerabilities,
                                 body |-> wres[i].body]
          /\ calls[i].save[k].body.id = id.Name
          /\ calls[i].save[k].body.vulns = calls[i].save[k].vulnerabilities
    /\ (Len(calls[i].query) >= 1 /\ wres[i].body # NoBody) => wres[i].body.id = id.Name

\* C22: for every identity of a batch, the name, version and ecosystem its worker
\* passes to the lookup, to the Reporter and to SaveVulnerabilityResults are those of
\* the identity the walker produced, and the vulnerability list and raw body passed to
\* Save are those its own lookup returned, under every interleaving of the workers.
C22_IdentityPassedOn ==
    BothGiven => \A i \in 1..Len(packages) : PassedOn(i, WalkerIdentity(i))

\* C22 witness: the worker of the second identity has saved its outcome while the
\* worker of the first, admitted before it, has not yet reported its own.
C22_Witness ==
    /\ BothGiven /\ Len(packages) = 2
    /\ wpc[1] = "display" /\ Len(wres[1].Vulnerabilities) > 0
    /\ wpc[2] = "release" /\ Len(calls[2].save) = 1
    /\ wres[1].body # wres[2].body

(***************************************************************************)
(* The order of the single-package scan, over Spec.                        *)
(***************************************************************************)
\* the steps of the single-package scan that have been taken
SingleLookedUp == Len(calls[Single].query) >= 1

SingleDisplayed == Len(calls[Single].results) >= 1

SingleSaved == Len(calls[Single].save) >= 1

\* C23: in single-package mode the steps occur in the order lookup, DisplayResults,
\* optional Save, write of the raw response to api_response.json; when the lookup
\* returns an error the run ends with a failure exit and none of DisplayResults, Save
\* and the write happens.
C23_SingleScanOrder ==
    ~BothGiven =>
        /\ Len(calls[Single].query) <= 1 /\ Len(calls[Single].results) <= 1
        /\ Len(calls[Single].save) <= 1
        /\ SingleDisplayed => SingleLookedUp /\ ~wres[Single].err
        /\ SingleSaved => SingleDisplayed
        /\ apiFile.written =>
              /\ SingleDisplayed
              /\ apiFile.body = wres[Single].body
              /\ (config.UseDB /\ dbInstance # "nil" /\ Len(wres[Single].Vulnerabilities) > 0)
                    => SingleSaved
        /\ mainPc \in {"s_write", "done"} => SingleDisplayed
        /\ (SingleLookedUp /\ wres[Single].err) =>
              /\ exit = "exit1"
              /\ ~SingleDisplayed /\ ~SingleSaved /\ ~apiFile.written
              /\ mainPc = "s_query"

\* C23 witness: the lookup of the single scan has failed and the run has ended with a
\* failure exit before any other step.
C23_Witness ==
    /\ ~BothGiven /\ SingleLookedUp /\ wres[Single].err
    /\ exit = "exit1" /\ ~SingleDisplayed /\ ~apiFile.written

\* all four steps of a single scan have been taken
SingleScanComplete ==
    /\ ~BothGiven /\ SingleLookedUp /\ SingleDisplayed /\ SingleSaved /\ apiFile.written
    /\ mainPc = "done"

(***************************************************************************)
(* The directory scan with a concurrency limit of 0, over Spec.            *)
(***************************************************************************)
\* a directory scan whose semaphore channel has capacity 0
LimitZero == BothGiven /\ config.Concurrency = 0

\* no worker exists and no lookup has been started
NoLookupStarted ==
    \A i \in Workers : wpc[i] = "unborn" /\ calls[i] = NoCalls

\* the dispatcher stands at the send of the first identity's admission
BlockedAtFirst ==
    /\ LimitZero /\ packages # <<>> /\ mainPc = "acquire" /\ next = 1 /\ Running

\* with limit 0, a non-empty batch never passes the first admission and an empty
\* batch goes straight to the summary
LimitZeroStates ==
    LimitZero =>
        /\ packages # <<>> =>
              /\ mainPc \in {"scan", "add", "acquire"} /\ next = 1 /\ sem = 0
              /\ NoLookupStarted /\ summary = <<>>
        /\ (mainPc = "wait" /\ Running) => packages = <<>> /\ WaitReturns(wg)
        /\ mainPc = "done" => packages = <<>> /\ summary = <<0>>

LimitZeroEmptyBatchDone ==
    LimitZero /\ packages = <<>> /\ mainPc = "done" /\ summary = <<0>>

(***************************************************************************)
(* The severity derivation inside SaveVulnerabilityResults, over Spec.     *)
(***************************************************************************)
\* the vulnerabilities of outcome i that carry a CVSS_V3 severity entry
WithCvssEntry(i) ==
    {k \in 1..Len(wres[i].Vulnerabilities) :
        \E s \in 1..Len(wres[i].Vulnerabilities[k].Severity) :
            wres[i].Vulnerabilities[k].Severity[s].Type = "CVSS_V3"}

\* C25: persisting an outcome never aborts the process: for every vulnerability with a
\* CVSS_V3 severity entry, whatever its score string, the severity derivation used by
\* SaveVulnerabilityResults returns a rating string, so the worker goes on to release
\* its admission slot and signal completion.
C25_SaveNeverAborts ==
    \A i \in Outcomes :
        /\ \A k \in WithCvssEntry(i) :
              dbGetSeverityRating(wres[i].Vulnerabilities[k]) # "PANIC"
        /\ calls[i].saveRet # "panic"

\* What the code does keep: a save that returns, with nil or with an error, leaves the
\* process running at that point, and the worker that called it goes on to its release.
SaveThatReturnsGoesOn ==
    \A i \in Workers :
        (BothGiven /\ calls[i].saveRet \in {"nil", "err"}) =>
            wpc[i] \in {"release", "wgdone", "finished"}

\* a worker's save has aborted the process while the worker held its slot
SaveAbortedHoldingSlot ==
    \E i \in Workers :
        /\ BothGiven /\ calls[i].saveRet = "panic" /\ exit = "panic"
        /\ sem >= 1 /\ wg >= 1 /\ summary = <<>>

(***************************************************************************)
(* The row's derived fields against the Reporter's, over SpecDerive.       *)
(***************************************************************************)
\* the row SaveVulnerabilityResults builds for the vulnerability the Reporter has shown
RowOfShown == VulnRow(QueriedName, <<>>, <<>>, <<hvuln>>, NoBody, 1)

\* C26: the severity rating and fix version stored in the row equal those shown by the
\* Reporter for the same vulnerability and package name, for every combination of
\* severity entries, score string and label, whatever the label's letter case.
C26_RowEqualsReport ==
    hpc = "shown" =>
        /\ RowOfShown.severity_rating = hout.severity
        /\ RowOfShown.fix_version = hout.fixVersion

\* What the two derivations do share: the fix version always, and the severity rating
\* when the first CVSS_V3 score is empty or starts with CVSS, or when there is no
\* CVSS_V3 entry and the label is empty or one of the four upper-case labels.
RowEqualsReportOnCommonCases ==
    hpc = "shown" =>
        /\ RowOfShown.fix_version = hout.fixVersion
        /\ LET cvss == CvssEntries
               score == hvuln.Severity[FirstOf(cvss)].Score
           IN IF cvss # {}
              THEN (score = <<>> \/ HasPrefix(score, <<"C","V","S","S">>))
                      => RowOfShown.severity_rating = hout.severity
              ELSE hvuln.DBSpecific \in {<<>>, LabelCritical, LabelHigh, LabelMedium, LabelLow}
                      => RowOfShown.severity_rating = hout.severity

\* a lower-case label: the Reporter shows the HIGH bucket and the row stores Unknown
LowerLabelDiffers ==
    /\ hpc = "shown" /\ CvssEntries = {} /\ hvuln.DBSpecific = ToLower(LabelHigh)
    /\ hout.severity = "7.0-8.9/10" /\ RowOfShown.severity_rating = "Unknown"

\* a score that does not start with CVSS: the Reporter counts its metrics and the row
\* stores 0.0/10
PlainScoreDiffers ==
    /\ hpc = "shown" /\ CvssEntries # {}
    /\ hout.severity = "3.0/10" /\ RowOfShown.severity_rating = "0.0/10"

(***************************************************************************)
(* The errors of QueryPackage, over Spec.                                  *)
(***************************************************************************)
\* C27: QueryPackage returns a non-nil error whenever it cannot obtain a vulnerability
\* list (transport failure, non-200 status, 200 with a body that does not decode), so
\* "No vulnerabilities found" is shown only when the response decoded to an empty
\* list; whenever it returns an error the vulnerability list it returns is empty.
C27_ErrorWheneverNoList ==
    \A i \in Outcomes :
        Queried(i) =>
            /\ wres[i].body.kind # "vulns" => wres[i].err
            /\ wres[i].err => wres[i].Vulnerabilities = <<>>
            /\ (calls[i].results # <<>> /\ wres[i].Vulnerabilities = <<>>)
                  => wres[i].body.kind = "vulns"

\* What QueryPackage does keep: a transport failure and a non-200 status are errors, an
\* error comes with an empty list, and a list that is not empty was decoded from the
\* body.
QueryErrorsKept ==
    \A i \in Outcomes :
        Queried(i) =>
            /\ wres[i].body.kind = "none" => wres[i].err
            /\ wres[i].err => wres[i].Vulnerabilities = <<>>
            /\ wres[i].Vulnerabilities # <<>> => wres[i].body.kind = "vulns" /\ ~wres[i].err

\* a 200 answer whose body does not decode has been reported as free of vulnerabilities
UndecodableShownAsClean ==
    \E i \in Outcomes :
        /\ Queried(i) /\ ~wres[i].err /\ wres[i].body.kind = "garbage"
        /\ calls[i].results # <<>> /\ wres[i].Vulnerabilities = <<>>

(***************************************************************************)
(* The letter case of the file extension, over SpecExtract.                *)
(***************************************************************************)
\* the filename with its extension, the last Len(ext) bytes, in lower case
WithLowerExtension(f, ext) == SubSeq(f, 1, Len(f) - Len(ext)) \o ToLower(ext)

\* the extension the filename ends with, as written
WrittenExtension(f, ext) == SubSeq(f, Len(f) - Len(ext) + 1, Len(f))

\* the name and version of an extraction, or its failure
NameAndVersion(r) == <<r.err, r.panic, r.Name, r.Version>>

\* a file the walker accepts has been handed to ExtractPackageInfo
AcceptedExtracted == xpc = "extracted" /\ MatchesExtension(ps, filename)

\* C28: extension stripping is case-insensitive: for every file the walker accepts,
\* whatever the letter case of its extension (.nupkg, .NUPKG, .NuPkg), the parser
\* yields the same name and version as for the filename with the lower-case extension.
C28_ExtensionCaseIgnored ==
    AcceptedExtracted =>
        NameAndVersion(extracted)
            = NameAndVersion(ExtractPackageInfo(ps, WithLowerExtension(filename, ps.FileExtension)))

\* What the parsers do keep: an extension written all in lower case or all in upper
\* case is stripped alike.
UpperExtensionStripped ==
    (AcceptedExtracted
        /\ WrittenExtension(filename, ps.FileExtension)
              \in {ToLower(ps.FileExtension), ToUpper(ps.FileExtension)}) =>
        NameAndVersion(extracted)
            = NameAndVersion(ExtractPackageInfo(ps, WithLowerExtension(filename, ps.FileExtension)))

\* B.1.2.3.Nupkg is accepted and parsed with the extension left in the version
MixedExtensionKept ==
    /\ AcceptedExtracted /\ ToLower(ps.FileExtension) = ExtNupkg
    /\ filename = <<"B",".","1",".","2",".","3",".","N","u","p","k","g">>
    /\ ~extracted.err /\ extracted.Version # <<"1",".","2",".","3">>

(***************************************************************************)
(* The transaction of SaveVulnerabilityResults, over Spec.                 *)
(***************************************************************************)
\* the rows of every outcome whose save has returned: all of them after nil, none
\* after an error
AllOrNothingRows ==
    \A i \in Outcomes :
        /\ calls[i].saveRet = "nil" => OneRowPerVulnerability(i)
        /\ calls[i].saveRet = "err" => RowsOf(i) = {}

\* a step changes the rows of an outcome only by the save of that outcome returning nil
OnlyOwnRowsChange ==
    \A i \in Outcomes :
        RowsOf(i)' # RowsOf(i) => calls[i].saveRet = None /\ calls'[i].saveRet = "nil"

\* C29: SaveVulnerabilityResults is all-or-nothing per outcome: when it returns nil one
\* row per vulnerability has been committed; when an insert or the prepare fails it
\* returns the error, the transaction is rolled back and no row of that outcome is
\* stored; the rows of other outcomes are unaffected.
C29_SaveAllOrNothing ==
    /\ []AllOrNothingRows
    /\ [][OnlyOwnRowsChange]_vars

\* C29 witness: the save of an outcome with two vulnerabilities has returned an error
\* and stored nothing, while the rows of another outcome committed before are there.
C29_Witness ==
    \E i, j \in Workers :
        /\ BothGiven /\ i # j /\ i \in Outcomes /\ j \in Outcomes
        /\ calls[i].saveRet = "err" /\ Len(wres[i].Vulnerabilities) = 2 /\ RowsOf(i) = {}
        /\ calls[j].saveRet = "nil" /\ RowsOf(j) # {}

(***************************************************************************)
(* The focus of the form, over SpecTui.                                    *)
(***************************************************************************)
\* the inputs of the form in the order activeInput counts them
AllInputs == model.inputs \o model.dbInputs \o model.logInputs

\* the positions, from 0, of the inputs that are focused
FocusedInputs == {a \in 0..(Len(AllInputs) - 1) : AllInputs[a + 1].focus}

\* the positions, from 0, of the inputs the form shows
VisibleInputs == 0..(totalInputs(model) - 1)

\* C30: after any sequence of Next, Prev, ToggleMode and ToggleOptions key events,
\* activeInput is the index of a currently visible input (a main input, or a database
\* or logging input only while the advanced options are shown) and exactly one text
\* input is focused, the one at activeInput.
C30_FocusOnVisibleInput ==
    model.Mode # "none" =>
        /\ model.activeInput \in VisibleInputs
        /\ FocusedInputs = {model.activeInput}

\* What the handlers do keep: activeInput is the index of an input of the form, that
\* input is focused, at most one main input is focused, and either mode has three
\* main inputs.
FocusFollowsActiveInput ==
    model.Mode # "none" =>
        /\ model.activeInput \in 0..(Len(AllInputs) - 1)
        /\ model.activeInput \in FocusedInputs
        /\ Cardinality(FocusedInputs \cap 0..(Len(model.inputs) - 1)) <= 1
        /\ Len(model.inputs) = Len(singlePackageInputs)

\* the advanced options were hidden while a database input was active: activeInput is
\* the index of an input that is not shown
HiddenInputActive ==
    /\ TuiRunning /\ ~model.showAdvanced
    /\ model.activeInput >= Len(model.inputs)
    /\ FocusedInputs = {model.activeInput}

\* Next after that: a main input and the hidden database input are both focused
TwoInputsFocused ==
    /\ TuiRunning /\ ~model.showAdvanced /\ model.activeInput < Len(model.inputs)
    /\ Cardinality(FocusedInputs) = 2
====
